---- MODULE Spec2Model ----
(***************************************************************************)
(* State-vector quantum simulator: the flat Float64Array engine             *)
(* (src/lib/quantum/simulator.ts) and the object-per-amplitude engine       *)
(* (src/unnamed/part_011), driven by the same sequence of apply calls.      *)
(*                                                                         *)
(* Numbers.  A JavaScript double is modelled by an exact value of the ring  *)
(* Z[sqrt 2, 1/2], (a + b*sqrt2) / 2^e, or by NaN or a signed infinity.     *)
(* Every entry of the gate library at multiples of pi/2 and every state     *)
(* reachable here lies in that ring, so the arithmetic of the code is       *)
(* followed exactly; floating-point rounding is not modelled.               *)
(***************************************************************************)
EXTENDS Integers, Sequences, FiniteSets, TLC

(* ------------------------------ bounds --------------------------------- *)

\* Engines are constructed for 1..MaxQubits qubits.
MaxQubits == 3

\* Mutating calls (apply, measure, initialize, ...) made after the prepared state.
MaxCalls == 1

\* Shots per sample call.
MaxShots == 2

\* Gates applied after the prepared state in the runs that only apply gates.
CircuitDepth == 3

\* Gates applied after the prepared state before getBlochCoordinates is called.
BlochDepth == 2

\* Snapshots in the store's undo history in the runs that try every store action.
MaxSnapshots == 3

\* Snapshots in the undo history in the runs that interleave runSimulation and
\* its callbacks with the edits.
RunSnapshots == 2

\* Callbacks of runSimulation waiting in the timer queue at one time.
MaxPending == 2

(* ------------------------------ numbers -------------------------------- *)

RECURSIVE Pow2(_)
Pow2(k) == IF k <= 0 THEN 1 ELSE 2 * Pow2(k - 1)

RECURSIVE Reduce(_, _, _)
\* The canonical form of (a + b*sqrt2) / 2^e: e is as small as possible.
Reduce(a, b, e) ==
  IF e > 0 /\ a % 2 = 0 /\ b % 2 = 0
  THEN Reduce(a \div 2, b \div 2, e - 1)
  ELSE [k |-> "num", a |-> a, b |-> b, e |-> e]

Num(a)  == [k |-> "num", a |-> a, b |-> 0, e |-> 0]
NaN     == [k |-> "nan", a |-> 0, b |-> 0, e |-> 0]
Inf(s)  == [k |-> "inf", a |-> s, b |-> 0, e |-> 0]
Zero    == Num(0)
One     == Num(1)

IsNaN(x) == x.k = "nan"

\* The sign (-1, 0, 1) of a + b*sqrt2, decided in the integers.
SignAB(a, b) ==
  IF b = 0 THEN (IF a > 0 THEN 1 ELSE IF a < 0 THEN -1 ELSE 0)
  ELSE IF a = 0 THEN (IF b > 0 THEN 1 ELSE -1)
  ELSE IF a > 0 /\ b > 0 THEN 1
  ELSE IF a < 0 /\ b < 0 THEN -1
  ELSE IF a > 0 THEN (IF a * a > 2 * b * b THEN 1 ELSE -1)
  ELSE (IF 2 * b * b > a * a THEN 1 ELSE -1)

Sign(x) == IF x.k = "inf" THEN x.a ELSE SignAB(x.a, x.b)

\* IEEE negation.
Neg(x) ==
  IF x.k = "nan" THEN NaN
  ELSE IF x.k = "inf" THEN Inf(-x.a)
  ELSE Reduce(-x.a, -x.b, x.e)

\* IEEE addition: NaN is absorbing, inf + (-inf) is NaN.
Plus(x, y) ==
  IF x.k = "nan" \/ y.k = "nan" THEN NaN
  ELSE IF x.k = "inf" /\ y.k = "inf" THEN (IF x.a = y.a THEN x ELSE NaN)
  ELSE IF x.k = "inf" THEN x
  ELSE IF y.k = "inf" THEN y
  ELSE LET e == IF x.e > y.e THEN x.e ELSE y.e
           fx == Pow2(e - x.e)
           fy == Pow2(e - y.e)
       IN Reduce(x.a * fx + y.a * fy, x.b * fx + y.b * fy, e)

Minus(x, y) == Plus(x, Neg(y))

\* IEEE multiplication: NaN is absorbing, 0 * inf is NaN.
Times(x, y) ==
  IF x.k = "nan" \/ y.k = "nan" THEN NaN
  ELSE IF x.k = "inf" \/ y.k = "inf"
       THEN (IF Sign(x) = 0 \/ Sign(y) = 0 THEN NaN ELSE Inf(Sign(x) * Sign(y)))
  ELSE Reduce(x.a * y.a + 2 * x.b * y.b, x.a * y.b + x.b * y.a, x.e + y.e)

\* x < y as JavaScript evaluates it: false when either side is NaN.
Less(x, y) ==
  /\ x.k # "nan"
  /\ y.k # "nan"
  /\ Sign(Minus(y, x)) = 1
  /\ ~(x.k = "inf" /\ y.k = "inf" /\ x.a = y.a)

Abs(x) == IF Sign(x) < 0 THEN Neg(x) ELSE x

\* Math.abs(x - 1) > 1e-6.  The threshold is taken as 2^-19 (1.9e-6): the two agree
\* on every value whose distance from 1 is not in (1e-6, 2^-19], and no norm formed
\* from ring amplitudes of the sizes reached here falls in that gap.  NaN compares
\* false, as in the code.
FarFromOne(x) == Less(Reduce(1, 0, 19), Abs(Minus(x, One)))

\* 1 / Math.sqrt(p) where the result lies in the ring: p = 2^-j gives (sqrt 2)^j,
\* p = 0 gives +Infinity, NaN and negative p give NaN.
SqrtExpressible(p) ==
  \/ p.k # "num"
  \/ Sign(p) <= 0
  \/ (p.a = 1 /\ p.b = 0)

InvSqrt(p) ==
  IF p.k = "nan" THEN NaN
  ELSE IF p.k = "inf" THEN (IF p.a = 1 THEN Zero ELSE NaN)
  ELSE IF Sign(p) = 0 THEN Inf(1)
  ELSE IF Sign(p) < 0 THEN NaN
  ELSE IF p.e % 2 = 0 THEN Num(Pow2(p.e \div 2))
  ELSE Reduce(0, Pow2(p.e \div 2), 0)

(* --------------------- 32-bit integer operators ------------------------ *)

\* JavaScript's <<, >>, &, | and ~ work on 32-bit two's complement integers and
\* take the shift count modulo 32.
MinInt32 == (-2147483647) - 1

Low31(x) == IF x >= 0 THEN x ELSE (x + 2147483647) + 1
FromParts(s, low) == IF s = 1 THEN (low - 2147483647) - 1 ELSE low

RECURSIVE AndNat(_, _)
AndNat(x, y) ==
  IF x = 0 \/ y = 0 THEN 0
  ELSE (x % 2) * (y % 2) + 2 * AndNat(x \div 2, y \div 2)

RECURSIVE OrNat(_, _)
OrNat(x, y) ==
  IF x = 0 THEN y
  ELSE IF y = 0 THEN x
  ELSE (IF x % 2 = 1 \/ y % 2 = 1 THEN 1 ELSE 0) + 2 * OrNat(x \div 2, y \div 2)

BitAnd(x, y) ==
  FromParts(IF x < 0 /\ y < 0 THEN 1 ELSE 0, AndNat(Low31(x), Low31(y)))

BitOr(x, y) ==
  FromParts(IF x < 0 \/ y < 0 THEN 1 ELSE 0, OrNat(Low31(x), Low31(y)))

BitNot(x) == (-1) - x

\* x << s for the operands the engines use (x is a single bit).
Shl(x, s) ==
  LET c == s % 32
  IN IF x % 2 = 0 THEN 0
     ELSE IF c = 31 THEN MinInt32
     ELSE Pow2(c)

\* x >> s (arithmetic shift).
Shr(x, s) ==
  LET c == s % 32
  IN IF c = 31 THEN (IF x < 0 THEN -1 ELSE 0) ELSE x \div Pow2(c)

(* -------------------- complex.ts: complex numbers ---------------------- *)

complex(re, im) == [real |-> re, imag |-> im]
ZERO == complex(Zero, Zero)
ONE  == complex(One, Zero)

add(a, b) == complex(Plus(a.real, b.real), Plus(a.imag, b.imag))

multiply(a, b) ==
  complex(Minus(Times(a.real, b.real), Times(a.imag, b.imag)),
          Plus(Times(a.real, b.imag), Times(a.imag, b.real)))

conjugate(a) == complex(a.real, Neg(a.imag))

magnitudeSquared(a) == Plus(Times(a.real, a.real), Times(a.imag, a.imag))

scale(a, scalar) == complex(Times(a.real, scalar), Times(a.imag, scalar))

\* cos(m*pi/4) and sin(m*pi/4), the values Math.cos and Math.sin return (up to
\* rounding) at the angles the model passes to parameterized gates.
SQRT2_INV == Reduce(0, 1, 1)

CosPi4(m) ==
  LET r == m % 8
  IN IF r = 0 THEN One
     ELSE IF r = 1 \/ r = 7 THEN SQRT2_INV
     ELSE IF r = 2 \/ r = 6 THEN Zero
     ELSE IF r = 3 \/ r = 5 THEN Neg(SQRT2_INV)
     ELSE Num(-1)

SinPi4(m) == CosPi4(m - 2)

\* fromPolar(1, m*pi/4)
fromPolar(m) == complex(CosPi4(m), SinPi4(m))

(* ----------------------- matrix.ts: dense matrices --------------------- *)

\* A JavaScript array holds values: Array(f) is the function f with every element
\* computed once, when the array is built, not each time it is read.
Array(f) == IF f = f THEN f ELSE f

\* Statements run in order: Done(x) is TRUE once the value x has been computed.
\* A loop tests it on the state one iteration leaves before it starts the next.
Done(x) == x = x

\* A matrix is a function from row index to a function from column index, both
\* counted from 0 as in the code.
Rows(m) == Cardinality(DOMAIN m)
Cols(m) == Cardinality(DOMAIN m[0])

createMatrix(rows, cols) == Array([i \in 0..(rows - 1) |-> [j \in 0..(cols - 1) |-> ZERO]])

identity(n) ==
  Array([i \in 0..(n - 1) |-> [j \in 0..(n - 1) |-> IF i = j THEN ONE ELSE ZERO]])

RECURSIVE RowDot(_, _, _, _)
\* sum = add(sum, multiply(m[i][j], v[j])) for j = from .. len-1, starting from acc.
RowDot(row, v, j, acc) ==
  IF j >= Cardinality(DOMAIN v) THEN acc
  ELSE RowDot(row, v, j + 1, add(acc, multiply(row[j], v[j])))

matrixVectorMultiply(m, v) == Array([i \in 0..(Rows(m) - 1) |-> RowDot(m[i], v, 0, ZERO)])

\* matrixMultiply(a, b): result[i][j] = sum over k of a[i][k] * b[k][j], added in
\* the order k = 0, 1, ... starting from ZERO.
matrixMultiply(a, b) ==
  [i \in 0..(Rows(a) - 1) |->
     [j \in 0..(Cols(b) - 1) |->
        RowDot(a[i], [k \in 0..(Rows(b) - 1) |-> b[k][j]], 0, ZERO)]]

\* A transpose that conjugates nothing.
transposeOnly(m) ==
  [j \in 0..(Cols(m) - 1) |-> [i \in 0..(Rows(m) - 1) |-> m[i][j]]]

\* conjugateTranspose(m): result[j][i] = conjugate(m[i][j])
conjugateTranspose(m) ==
  [j \in 0..(Cols(m) - 1) |-> [i \in 0..(Rows(m) - 1) |-> conjugate(m[i][j])]]

tensorProduct(a, b) ==
  LET rowsB == Rows(b)
      colsB == Cols(b)
  IN Array([r \in 0..(Rows(a) * rowsB - 1) |->
             [c \in 0..(Cols(a) * colsB - 1) |->
                multiply(a[r \div rowsB][c \div colsB], b[r % rowsB][c % colsB])]])

(* ------------------- gates: the gate library --------------------------- *)

\* A gate parameter is an angle q*pi/2 (q an integer) or NaN.
Angle(q) == [nan |-> FALSE, q |-> q]
NaNAngle == [nan |-> TRUE, q |-> 0]

CosHalf(t) == IF t.nan THEN NaN ELSE CosPi4(t.q)
SinHalf(t) == IF t.nan THEN NaN ELSE SinPi4(t.q)
CosOf(t)   == IF t.nan THEN NaN ELSE CosPi4(2 * t.q)
SinOf(t)   == IF t.nan THEN NaN ELSE SinPi4(2 * t.q)
AngleSum(t, u) == IF t.nan \/ u.nan THEN NaNAngle ELSE Angle(t.q + u.q)
\* fromPolar(1, theta) = { real: cos(theta), imag: sin(theta) }
PolarOf(t)     == complex(CosOf(t), SinOf(t))
PolarHalf(t)   == complex(CosHalf(t), SinHalf(t))
PolarNegHalf(t) == complex(CosHalf(t), Neg(SinHalf(t)))

\* complex(x) and complex(0, y)
re(x) == complex(x, Zero)
im(y) == complex(Zero, y)
c0 == re(Zero)
c1 == re(One)

\* A matrix from its rows, written as in the source.
Mat(rows) ==
  Array([i \in 0..(Len(rows) - 1) |-> [j \in 0..(Len(rows[1]) - 1) |-> rows[i + 1][j + 1]]])

\* m with m[i][j] = v
Put(m, i, j, v) == Array([m EXCEPT ![i] = [m[i] EXCEPT ![j] = v]])

X == Mat(<< <<c0, c1>>, <<c1, c0>> >>)
Y == Mat(<< <<c0, im(Num(-1))>>, <<im(One), c0>> >>)
Z == Mat(<< <<c1, c0>>, <<c0, re(Num(-1))>> >>)
\* H without the minus sign of its last entry.
HAllPlus == Mat(<< <<re(SQRT2_INV), re(SQRT2_INV)>>, <<re(SQRT2_INV), re(SQRT2_INV)>> >>)
H == Mat(<< <<re(SQRT2_INV), re(SQRT2_INV)>>, <<re(SQRT2_INV), re(Neg(SQRT2_INV))>> >>)
S == Mat(<< <<c1, c0>>, <<c0, im(One)>> >>)
SDag == Mat(<< <<c1, c0>>, <<c0, im(Num(-1))>> >>)
T == Mat(<< <<c1, c0>>, <<c0, fromPolar(1)>> >>)
TDag == Mat(<< <<c1, c0>>, <<c0, fromPolar(-1)>> >>)
I == identity(2)

Rx(theta) ==
  Mat(<< <<re(CosHalf(theta)), im(Neg(SinHalf(theta)))>>,
         <<im(Neg(SinHalf(theta))), re(CosHalf(theta))>> >>)

Ry(theta) ==
  Mat(<< <<re(CosHalf(theta)), re(Neg(SinHalf(theta)))>>,
         <<re(SinHalf(theta)), re(CosHalf(theta))>> >>)

Rz(theta) == Mat(<< <<PolarNegHalf(theta), c0>>, <<c0, PolarHalf(theta)>> >>)

Phase(phi) == Mat(<< <<c1, c0>>, <<c0, PolarOf(phi)>> >>)

U3(theta, phi, lambda) ==
  LET cos == CosHalf(theta)
      sin == SinHalf(theta)
  IN Mat(<< <<re(cos),
              complex(Times(Neg(sin), CosOf(lambda)), Times(Neg(sin), SinOf(lambda)))>>,
            <<complex(Times(sin, CosOf(phi)), Times(sin, SinOf(phi))),
              complex(Times(cos, CosOf(AngleSum(phi, lambda))),
                      Times(cos, SinOf(AngleSum(phi, lambda))))>> >>)

\* CNOT with the second qubit as control.
CNOTSecondControl == Mat(<< <<c1, c0, c0, c0>>, <<c0, c0, c0, c1>>,
                            <<c0, c0, c1, c0>>, <<c0, c1, c0, c0>> >>)
CNOT == Mat(<< <<c1, c0, c0, c0>>, <<c0, c1, c0, c0>>,
               <<c0, c0, c0, c1>>, <<c0, c0, c1, c0>> >>)
CZ == Mat(<< <<c1, c0, c0, c0>>, <<c0, c1, c0, c0>>,
             <<c0, c0, c1, c0>>, <<c0, c0, c0, re(Num(-1))>> >>)
SWAP == Mat(<< <<c1, c0, c0, c0>>, <<c0, c0, c1, c0>>,
               <<c0, c1, c0, c0>>, <<c0, c0, c0, c1>> >>)
iSWAP == Mat(<< <<c1, c0, c0, c0>>, <<c0, c0, im(One), c0>>,
                <<c0, im(One), c0, c0>>, <<c0, c0, c0, c1>> >>)

CPhase(phi) ==
  Mat(<< <<c1, c0, c0, c0>>, <<c0, c1, c0, c0>>,
         <<c0, c0, c1, c0>>, <<c0, c0, c0, PolarOf(phi)>> >>)

SX == Mat(<< <<complex(Reduce(1, 0, 1), Reduce(1, 0, 1)), complex(Reduce(1, 0, 1), Reduce(-1, 0, 1))>>,
             <<complex(Reduce(1, 0, 1), Reduce(-1, 0, 1)), complex(Reduce(1, 0, 1), Reduce(1, 0, 1))>> >>)
SXDag == Mat(<< <<complex(Reduce(1, 0, 1), Reduce(-1, 0, 1)), complex(Reduce(1, 0, 1), Reduce(1, 0, 1))>>,
                <<complex(Reduce(1, 0, 1), Reduce(1, 0, 1)), complex(Reduce(1, 0, 1), Reduce(-1, 0, 1))>> >>)

RXX(theta) ==
  LET cos == re(CosHalf(theta))
      ms  == im(Neg(SinHalf(theta)))
  IN Mat(<< <<cos, c0, c0, ms>>, <<c0, cos, ms, c0>>,
            <<c0, ms, cos, c0>>, <<ms, c0, c0, cos>> >>)

RYY(theta) ==
  LET cos == re(CosHalf(theta))
      ms  == im(Neg(SinHalf(theta)))
      ps  == im(SinHalf(theta))
  IN Mat(<< <<cos, c0, c0, ps>>, <<c0, cos, ms, c0>>,
            <<c0, ms, cos, c0>>, <<ps, c0, c0, cos>> >>)

RZZ(theta) ==
  LET p == PolarNegHalf(theta)
      q == PolarHalf(theta)
  IN Mat(<< <<p, c0, c0, c0>>, <<c0, q, c0, c0>>,
            <<c0, c0, q, c0>>, <<c0, c0, c0, p>> >>)

Toffoli == Put(Put(Put(Put(identity(8), 6, 6, c0), 6, 7, c1), 7, 6, c1), 7, 7, c0)
RCCX == Put(Toffoli, 5, 5, re(Num(-1)))
Fredkin == Put(Put(Put(Put(identity(8), 5, 5, c0), 5, 6, c1), 6, 5, c1), 6, 6, c0)
CCZ == Put(identity(8), 7, 7, re(Num(-1)))
CH == Put(Put(Put(Put(identity(4), 2, 2, H[0][0]), 2, 3, H[0][1]), 3, 2, H[1][0]), 3, 3, H[1][1])

\* GATE_LIBRARY: per name, the arity, whether the matrix is a function of the
\* parameters, and the number of declared parameter names.
Entry(q, f, n) == [qubits |-> q, isFunction |-> f, params |-> n]

GATE_LIBRARY ==
  [g \in {"I", "X", "Y", "Z", "H", "S", "SDag", "T", "TDag", "SX", "SXDag"}
     |-> Entry(1, FALSE, 0)]
  @@ [g \in {"Rx", "Ry", "Rz", "Phase"} |-> Entry(1, TRUE, 1)]
  @@ [g \in {"U3"} |-> Entry(1, TRUE, 3)]
  @@ [g \in {"CNOT", "CZ", "CH", "SWAP", "iSWAP"} |-> Entry(2, FALSE, 0)]
  @@ [g \in {"CPhase", "RXX", "RYY", "RZZ"} |-> Entry(2, TRUE, 1)]
  @@ [g \in {"Toffoli", "Fredkin", "CCZ", "RCCX"} |-> Entry(3, FALSE, 0)]

\* p[i] || 0: a missing, zero or NaN parameter reads as 0.
OrZero(p, i) == IF i < Len(p) /\ ~p[i + 1].nan THEN p[i + 1] ELSE Angle(0)

\* p[0] of a non-empty parameter array.
First(p) == p[1]

\* gateInfo.matrix, or gateInfo.matrix(p) for a parameterized gate.
GateMatrix(g, p) ==
  CASE g = "I" -> I [] g = "X" -> X [] g = "Y" -> Y [] g = "Z" -> Z [] g = "H" -> H
    [] g = "S" -> S [] g = "SDag" -> SDag [] g = "T" -> T [] g = "TDag" -> TDag
    [] g = "SX" -> SX [] g = "SXDag" -> SXDag
    [] g = "Rx" -> Rx(First(p)) [] g = "Ry" -> Ry(First(p)) [] g = "Rz" -> Rz(First(p))
    [] g = "Phase" -> Phase(First(p))
    [] g = "U3" -> U3(First(p), OrZero(p, 1), OrZero(p, 2))
    [] g = "CNOT" -> CNOT [] g = "CZ" -> CZ [] g = "CH" -> CH [] g = "SWAP" -> SWAP
    [] g = "iSWAP" -> iSWAP
    [] g = "CPhase" -> CPhase(First(p)) [] g = "RXX" -> RXX(First(p))
    [] g = "RYY" -> RYY(First(p)) [] g = "RZZ" -> RZZ(First(p))
    [] g = "Toffoli" -> Toffoli [] g = "Fredkin" -> Fredkin [] g = "CCZ" -> CCZ
    [] g = "RCCX" -> RCCX

(* ------------- simulator.ts: the flat Float64Array engine -------------- *)

Size(n) == Pow2(n)

\* new Float64Array(stateSize * 2) with state[0] = 1.0
FlatFresh(n) == Array([x \in 0..(2 * Size(n) - 1) |-> IF x = 0 THEN One ELSE Zero])

\* this.state[2 * idx] and this.state[2 * idx + 1] as one amplitude.  2 * idx is
\* computed in doubles (no wrap-around), so the element exists exactly when
\* 0 <= idx < 2^n; a typed array reads undefined elsewhere, which the arithmetic
\* that follows turns into NaN.
FlatGet(buf, n, idx) ==
  IF idx >= 0 /\ idx < Size(n)
  THEN complex(buf[2 * idx], buf[2 * idx + 1])
  ELSE complex(NaN, NaN)

\* this.state[2 * idx] = v.real; this.state[2 * idx + 1] = v.imag.  A typed array
\* ignores a store outside its bounds.
FlatPut(buf, n, idx, v) ==
  IF idx >= 0 /\ idx < Size(n)
  THEN [buf EXCEPT ![2 * idx] = v.real, ![2 * idx + 1] = v.imag]
  ELSE buf

\* resultSize = Math.min(size, 1024 * 16)
ResultSize(n) == IF Size(n) < 1024 * 16 THEN Size(n) ELSE 1024 * 16

\* getState(): { real: state[2i], imag: state[2i+1] } for i < resultSize
FlatGetState(buf, n) ==
  Array([i \in 0..(ResultSize(n) - 1) |-> complex(buf[2 * i], buf[2 * i + 1])])

\* getProbabilities(): re * re + im * im per amplitude, for i < resultSize
FlatGetProbabilities(buf, n) ==
  Array([i \in 0..(ResultSize(n) - 1) |->
           Plus(Times(buf[2 * i], buf[2 * i]), Times(buf[2 * i + 1], buf[2 * i + 1]))])

\* sample's own probs = new Float64Array(size), filled for every i < size
FlatSampleProbs(buf, n) ==
  Array([i \in 0..(Size(n) - 1) |->
           Plus(Times(buf[2 * i], buf[2 * i]), Times(buf[2 * i + 1], buf[2 * i + 1]))])

RECURSIVE FlatSingleLoop(_, _, _, _, _)
\* The body of applySingleQubitGate's loop, for i, i+1, ..., size-1, in place.
FlatSingleLoop(buf, n, gate, mask, i) ==
  IF i >= Size(n) THEN buf
  ELSE IF BitAnd(i, mask) = 0
  THEN LET i1 == BitOr(i, mask)
           v0 == FlatGet(buf, n, i)
           v1 == FlatGet(buf, n, i1)
           w0 == add(multiply(gate[0][0], v0), multiply(gate[0][1], v1))
           w1 == add(multiply(gate[1][0], v0), multiply(gate[1][1], v1))
           next == FlatPut(FlatPut(buf, n, i, w0), n, i1, w1)
       IN IF Done(next) THEN FlatSingleLoop(next, n, gate, mask, i + 1) ELSE buf
  ELSE FlatSingleLoop(buf, n, gate, mask, i + 1)

FlatApplySingleQubitGate(buf, n, gate, qubit) ==
  FlatSingleLoop(buf, n, gate, Shl(1, n - 1 - qubit), 0)

RECURSIVE ScatterRows(_, _, _, _, _, _)
\* for (row ...) { target = sum over col of gate[row][col] * v[col];
\*                 this.state[indices[row]] = target }
ScatterRows(buf, n, gate, indices, v, row) ==
  IF row >= Cardinality(DOMAIN indices) THEN buf
  ELSE ScatterRows(FlatPut(buf, n, indices[row], RowDot(gate[row], v, 0, ZERO)),
                   n, gate, indices, v, row + 1)

RECURSIVE FlatTwoLoop(_, _, _, _, _, _)
FlatTwoLoop(buf, n, gate, m1, m2, i) ==
  IF i >= Size(n) THEN buf
  ELSE IF BitAnd(i, m1) = 0 /\ BitAnd(i, m2) = 0
  THEN LET indices == Mat(<< <<i, BitOr(i, m2), BitOr(i, m1), BitOr(BitOr(i, m1), m2)>> >>)[0]
           v == Array([c \in 0..3 |-> FlatGet(buf, n, indices[c])])
           next == ScatterRows(buf, n, gate, indices, v, 0)
       IN IF Done(next) THEN FlatTwoLoop(next, n, gate, m1, m2, i + 1) ELSE buf
  ELSE FlatTwoLoop(buf, n, gate, m1, m2, i + 1)

FlatApplyTwoQubitGate(buf, n, gate, q1, q2) ==
  FlatTwoLoop(buf, n, gate, Shl(1, n - 1 - q1), Shl(1, n - 1 - q2), 0)

RECURSIVE OrMasks(_, _)
\* masks.reduce((a, b) => a | b, 0)
OrMasks(masks, k) ==
  IF k >= Cardinality(DOMAIN masks) THEN 0 ELSE BitOr(masks[k], OrMasks(masks, k + 1))

RECURSIVE SubIndexLowFirst(_, _, _, _)
\* SubIndex with bit k of j, instead of bit len - 1 - k, selecting masks[k].
SubIndexLowFirst(idx, masks, j, k) ==
  LET len == Cardinality(DOMAIN masks)
  IN IF k >= len THEN idx
     ELSE SubIndexLowFirst(IF BitAnd(Shr(j, k), 1) # 0 THEN BitOr(idx, masks[k]) ELSE idx,
                           masks, j, k + 1)

RECURSIVE SubIndex(_, _, _, _)
\* idx = i; for (k ...) if ((j >> (len - 1 - k)) & 1) idx |= masks[k]
SubIndex(idx, masks, j, k) ==
  LET len == Cardinality(DOMAIN masks)
  IN IF k >= len THEN idx
     ELSE SubIndex(IF BitAnd(Shr(j, len - 1 - k), 1) # 0 THEN BitOr(idx, masks[k]) ELSE idx,
                   masks, j, k + 1)

RECURSIVE FlatMultiLoop(_, _, _, _, _, _)
FlatMultiLoop(buf, n, gate, masks, totalMask, i) ==
  IF i >= Size(n) THEN buf
  ELSE IF BitAnd(i, totalMask) = 0
  THEN LET gateSize == Pow2(Cardinality(DOMAIN masks))
           subIndices == Array([j \in 0..(gateSize - 1) |-> SubIndex(i, masks, j, 0)])
           v == Array([j \in 0..(gateSize - 1) |-> FlatGet(buf, n, subIndices[j])])
           next == ScatterRows(buf, n, gate, subIndices, v, 0)
       IN IF Done(next) THEN FlatMultiLoop(next, n, gate, masks, totalMask, i + 1) ELSE buf
  ELSE FlatMultiLoop(buf, n, gate, masks, totalMask, i + 1)

\* qubits is the sequence of qubit arguments, in call order.
FlatApplyMultiQubitGate(buf, n, gate, qubits) ==
  LET masks == Array([k \in 0..(Len(qubits) - 1) |-> Shl(1, n - 1 - qubits[k + 1])])
  IN FlatMultiLoop(buf, n, gate, masks, OrMasks(masks, 0), 0)

\* params && params.length > 0 ? params : [0]
ParamsOrDefault(params) == IF Len(params) > 0 THEN params ELSE <<Angle(0)>>

\* apply(gateName, ...args): the outcome ("none" when the call returns) and the
\* buffer afterwards.
FlatApply(buf, n, g, params, qubits) ==
  IF g \notin DOMAIN GATE_LIBRARY THEN [err |-> "Error", buf |-> buf]
  ELSE LET gateInfo == GATE_LIBRARY[g]
           matrix == GateMatrix(g, ParamsOrDefault(params))
       IN [err |-> "none",
           buf |-> IF gateInfo.qubits = 1
                   THEN FlatApplySingleQubitGate(buf, n, matrix, qubits[1])
                   ELSE IF gateInfo.qubits = 2
                   THEN FlatApplyTwoQubitGate(buf, n, matrix, qubits[1], qubits[2])
                   ELSE FlatApplyMultiQubitGate(buf, n, matrix, qubits)]

(* --------- part_011: the object-per-amplitude engine ------------------- *)

\* Array(stateSize).fill(null).map(() => ({ ...ZERO }))
Zeros(n) == Array([i \in 0..(Size(n) - 1) |-> ZERO])

\* ... with this.state[0] = { ...ONE }
ObjFresh(n) == [Zeros(n) EXCEPT ![0] = ONE]

\* BitOf with qubit 0 taken as the least significant bit.
BitOfLittleEndian(i, n, q) == BitAnd(Shr(i, q), 1)

\* (i >> (n - 1 - q)) & 1
BitOf(i, n, q) == BitAnd(Shr(i, n - 1 - q), 1)

\* newIndex &= ~(1 << (n - 1 - q)); newIndex |= (newBit << (n - 1 - q))
SetBit(idx, n, q, newBit) ==
  BitOr(BitAnd(idx, BitNot(Shl(1, n - 1 - q))), Shl(newBit, n - 1 - q))

RECURSIVE FullOperator(_, _, _, _, _)
\* for (i = 1; i < numQubits; i++) fullOperator = tensorProduct(fullOperator, nextOp)
FullOperator(op, gate, qubit, n, i) ==
  IF i >= n THEN op
  ELSE FullOperator(tensorProduct(op, IF i = qubit THEN gate ELSE identity(2)),
                    gate, qubit, n, i + 1)

\* Each apply routine returns [err, state]: err is "none" and state the new
\* this.state, or err names the exception thrown and state is this.state as the
\* throw leaves it.
ObjApplySingleQubitGate(st, n, gate, qubit) ==
  IF qubit < 0 \/ qubit >= n THEN [err |-> "Error", state |-> st]
  ELSE [err |-> "none",
        state |-> matrixVectorMultiply(
                    FullOperator(IF qubit = 0 THEN gate ELSE identity(2), gate, qubit, n, 1),
                    st)]

RECURSIVE ObjTwoInner(_, _, _, _, _, _, _, _)
\* The inner loop of applyTwoQubitGate: for (j = from; j < 4; j++) at a fixed i.
ObjTwoInner(newState, st, n, gate, qubit1, qubit2, i, j) ==
  IF j >= 4 THEN newState
  ELSE LET needsSwap == qubit1 > qubit2
           bit1 == BitOf(i, n, qubit1)
           bit2 == BitOf(i, n, qubit2)
           twoQubitIndex == IF needsSwap THEN bit2 * 2 + bit1 ELSE bit1 * 2 + bit2
           newBit1 == IF needsSwap THEN BitAnd(j, 1) ELSE BitAnd(Shr(j, 1), 1)
           newBit2 == IF needsSwap THEN BitAnd(Shr(j, 1), 1) ELSE BitAnd(j, 1)
           newIndex == SetBit(SetBit(i, n, qubit1, newBit1), n, qubit2, newBit2)
       IN ObjTwoInner(
            [newState EXCEPT ![newIndex] = add(@, multiply(gate[j][twoQubitIndex], st[i]))],
            st, n, gate, qubit1, qubit2, i, j + 1)

RECURSIVE ObjTwoLoop(_, _, _, _, _, _, _)
\* The outer loop of applyTwoQubitGate: for (i = from; i < stateSize; i++)
ObjTwoLoop(newState, st, n, gate, qubit1, qubit2, i) ==
  IF i >= Size(n) THEN newState
  ELSE LET next == ObjTwoInner(newState, st, n, gate, qubit1, qubit2, i, 0)
       IN IF Done(next) THEN ObjTwoLoop(next, st, n, gate, qubit1, qubit2, i + 1) ELSE st

ObjApplyTwoQubitGate(st, n, gate, qubit1, qubit2) ==
  IF qubit1 < 0 \/ qubit1 >= n \/ qubit2 < 0 \/ qubit2 >= n
  THEN [err |-> "Error", state |-> st]
  ELSE IF qubit1 = qubit2 THEN [err |-> "Error", state |-> st]
  ELSE [err |-> "none", state |-> ObjTwoLoop(Zeros(n), st, n, gate, qubit1, qubit2, 0)]

RECURSIVE GateIndexReversed(_, _, _, _)
\* GateIndex with the qubits' bits packed in the opposite order.
GateIndexReversed(i, n, qubits, q) ==
  IF q >= Len(qubits) THEN 0
  ELSE BitOr(BitOf(i, n, qubits[q + 1]) * Pow2(q), GateIndexReversed(i, n, qubits, q + 1))

RECURSIVE GateIndex(_, _, _, _)
\* gateIndex |= (bit << (qubits.length - 1 - q)) for q = from .. length-1
GateIndex(i, n, qubits, q) ==
  IF q >= Len(qubits) THEN 0
  ELSE BitOr(BitOf(i, n, qubits[q + 1]) * Pow2(Len(qubits) - 1 - q),
             GateIndex(i, n, qubits, q + 1))

RECURSIVE NewIndex(_, _, _, _, _)
\* for (q ...) { newBit = (j >> (length - 1 - q)) & 1; clear and set that bit }
NewIndex(idx, n, qubits, j, q) ==
  IF q >= Len(qubits) THEN idx
  ELSE NewIndex(SetBit(idx, n, qubits[q + 1], BitAnd(Shr(j, Len(qubits) - 1 - q), 1)),
                n, qubits, j, q + 1)

RECURSIVE ObjMultiInner(_, _, _, _, _, _, _)
\* The inner loop of applyMultiQubitGate: for (j = from; j < gateSize; j++) at a
\* fixed i.  newState[newIndex] is undefined when newIndex is outside the array,
\* and add(undefined, ...) throws a TypeError; nothing but the local newState has
\* been written by then.
ObjMultiInner(newState, st, n, gate, qubits, i, j) ==
  IF j >= Pow2(Len(qubits)) THEN [err |-> "none", state |-> newState]
  ELSE LET newIndex == NewIndex(i, n, qubits, j, 0)
       IN IF newIndex \notin DOMAIN newState
          THEN [err |-> "TypeError", state |-> st]
          ELSE ObjMultiInner(
                 [newState EXCEPT ![newIndex] =
                    add(@, multiply(gate[j][GateIndex(i, n, qubits, 0)], st[i]))],
                 st, n, gate, qubits, i, j + 1)

RECURSIVE ObjMultiLoop(_, _, _, _, _, _)
\* The outer loop of applyMultiQubitGate: for (i = from; i < stateSize; i++)
ObjMultiLoop(newState, st, n, gate, qubits, i) ==
  IF i >= Size(n) THEN [err |-> "none", state |-> newState]
  ELSE LET next == ObjMultiInner(newState, st, n, gate, qubits, i, 0)
       IN IF next.err # "none" THEN next
          ELSE ObjMultiLoop(next.state, st, n, gate, qubits, i + 1)

ObjApplyMultiQubitGate(st, n, gate, qubits) ==
  ObjMultiLoop(Zeros(n), st, n, gate, qubits, 0)

\* Safety check for NaN in matrix
HasNaN(matrix) ==
  \E i \in DOMAIN matrix : \E j \in DOMAIN matrix[i] :
     IsNaN(matrix[i][j].real) \/ IsNaN(matrix[i][j].imag)

\* apply(gateName, ...args) on the engine [state, history, operations]:
\* the exception thrown ("none" when the call returns) and the engine afterwards.
ObjApply(eng, n, g, params, qubits) ==
  IF g \notin DOMAIN GATE_LIBRARY THEN [err |-> "Error", eng |-> eng]
  ELSE LET gateInfo == GATE_LIBRARY[g]
           matrix == GateMatrix(g, ParamsOrDefault(params))
       IN IF HasNaN(matrix) THEN [err |-> "Error", eng |-> eng]
          ELSE LET logged == Append(eng.operations,
                                    [gate |-> g, qubits |-> qubits, params |-> params])
                   r == IF gateInfo.qubits = 1
                        THEN ObjApplySingleQubitGate(eng.state, n, matrix, qubits[1])
                        ELSE IF gateInfo.qubits = 2
                        THEN ObjApplyTwoQubitGate(eng.state, n, matrix, qubits[1], qubits[2])
                        ELSE ObjApplyMultiQubitGate(eng.state, n, matrix, qubits)
               IN [err |-> r.err,
                   eng |-> [state |-> r.state,
                            history |-> IF r.err = "none"
                                        THEN Append(eng.history, r.state)
                                        ELSE eng.history,
                            operations |-> logged]]

RECURSIVE ProbOfOtherBit(_, _, _, _, _)
\* ProbOfBit with the test on the bit inverted.
ProbOfOtherBit(st, n, qubit, bit, i) ==
  IF i >= Size(n) THEN Zero
  ELSE IF BitOf(i, n, qubit) # bit
  THEN Plus(magnitudeSquared(st[i]), ProbOfOtherBit(st, n, qubit, bit, i + 1))
  ELSE ProbOfOtherBit(st, n, qubit, bit, i + 1)

RECURSIVE ProbOfBit(_, _, _, _, _)
\* The sum of magnitudeSquared(state[i]) over i = from .. size-1 whose bit for
\* `qubit` equals `bit`.
ProbOfBit(st, n, qubit, bit, i) ==
  IF i >= Size(n) THEN Zero
  ELSE IF BitOf(i, n, qubit) = bit
  THEN Plus(magnitudeSquared(st[i]), ProbOfBit(st, n, qubit, bit, i + 1))
  ELSE ProbOfBit(st, n, qubit, bit, i + 1)

\* Math.random() returns a double r in [0, 1).  The code only compares r with
\* thresholds, so its behaviour for any r equals its behaviour for the largest of
\* 0 and the thresholds in [0, 1) that is <= r: these points stand for all draws.
RandomPoints(thresholds) ==
  {Zero} \cup {t \in thresholds : t.k = "num" /\ Sign(t) >= 0 /\ Less(t, One)}

\* A measure that reports the outcome and logs the call but leaves the state
\* as it is, without collapsing it.
ObjMeasureUncollapsed(eng, n, qubit, random) ==
  IF qubit < 0 \/ qubit >= n
  THEN [err |-> "Error", outcome |-> 0, probability |-> Zero, eng |-> eng]
  ELSE LET prob0 == ProbOfBit(eng.state, n, qubit, 0, 0)
           prob1 == ProbOfBit(eng.state, n, qubit, 1, 0)
           outcome == IF Less(random, prob0) THEN 0 ELSE 1
           probability == IF outcome = 0 THEN prob0 ELSE prob1
       IN [err |-> "none", outcome |-> outcome, probability |-> probability,
           eng |-> [state |-> eng.state,
                    history |-> Append(eng.history, eng.state),
                    operations |-> Append(eng.operations,
                                          [gate |-> "MEASURE", qubits |-> <<qubit>>])]]

\* measure(qubit) with Math.random() = random: [err, outcome, probability, eng].
ObjMeasure(eng, n, qubit, random) ==
  IF qubit < 0 \/ qubit >= n
  THEN [err |-> "Error", outcome |-> 0, probability |-> Zero, eng |-> eng]
  ELSE LET prob0 == ProbOfBit(eng.state, n, qubit, 0, 0)
           prob1 == ProbOfBit(eng.state, n, qubit, 1, 0)
           outcome == IF Less(random, prob0) THEN 0 ELSE 1
           probability == IF outcome = 0 THEN prob0 ELSE prob1
           normFactor == InvSqrt(probability)
           collapsedState == Array([i \in 0..(Size(n) - 1) |->
                                      IF BitOf(i, n, qubit) = outcome
                                      THEN scale(eng.state[i], normFactor)
                                      ELSE ZERO])
       IN [err |-> "none", outcome |-> outcome, probability |-> probability,
           eng |-> [state |-> collapsedState,
                    history |-> Append(eng.history, collapsedState),
                    operations |-> Append(eng.operations,
                                          [gate |-> "MEASURE", qubits |-> <<qubit>>])]]

\* The probability measure(qubit) divides by when Math.random() = random.
MeasureProbability(st, n, qubit, random) ==
  IF Less(random, ProbOfBit(st, n, qubit, 0, 0))
  THEN ProbOfBit(st, n, qubit, 0, 0)
  ELSE ProbOfBit(st, n, qubit, 1, 0)

\* The draws that stand for every Math.random() of measure(qubit) on state st, and
\* of those the ones whose normFactor lies in the ring.
MeasureDraws(st, n, qubit) ==
  {random \in RandomPoints({ProbOfBit(st, n, qubit, 0, 0)}) :
     SqrtExpressible(MeasureProbability(st, n, qubit, random))}

RECURSIVE ObjMeasureAllDescending(_, _, _, _)
\* A measureAll that measures qubit numQubits-1 first and qubit 0 last.
ObjMeasureAllDescending(eng, n, i, results) ==
  IF i >= n THEN {[results |-> results, eng |-> eng]}
  ELSE UNION {LET r == ObjMeasure(eng, n, n - 1 - i, random)
              IN ObjMeasureAllDescending(r.eng, n, i + 1, Append(results, r.outcome)) :
              random \in MeasureDraws(eng.state, n, n - 1 - i)}

RECURSIVE ObjMeasureAll(_, _, _, _)
\* measureAll(): results.push(this.measure(i).outcome) for i = from .. numQubits-1.
\* The set of [results, eng] it can end with, one per sequence of draws.
ObjMeasureAll(eng, n, i, results) ==
  IF i >= n THEN {[results |-> results, eng |-> eng]}
  ELSE UNION {LET r == ObjMeasure(eng, n, i, random)
              IN ObjMeasureAll(r.eng, n, i + 1, Append(results, r.outcome)) :
              random \in MeasureDraws(eng.state, n, i)}

\* bits = basisState.replace(/[|⟩>]/g, ''): a label is a sequence of characters,
\* and ">" stands for either closing bracket.
RECURSIVE StripKet(_)
StripKet(chars) ==
  IF chars = <<>> THEN <<>>
  ELSE IF Head(chars) \in {"|", ">"} THEN StripKet(Tail(chars))
  ELSE <<Head(chars)>> \o StripKet(Tail(chars))

RECURSIVE BinaryPrefix(_, _)
\* The value of the longest prefix of binary digits, given the value so far.
BinaryPrefix(chars, acc) ==
  IF chars = <<>> \/ Head(chars) \notin {"0", "1"} THEN acc
  ELSE BinaryPrefix(Tail(chars), 2 * acc + (IF Head(chars) = "1" THEN 1 ELSE 0))

\* parseInt(bits, 2): NaN when the string does not start with a binary digit.
ParseInt2(chars) ==
  IF chars = <<>> \/ Head(chars) \notin {"0", "1"}
  THEN [nan |-> TRUE, v |-> 0]
  ELSE [nan |-> FALSE, v |-> BinaryPrefix(chars, 0)]

\* initialize(basisState): basisState is [isString, label, index].
ObjInitialize(n, basisState) ==
  LET index == IF basisState.isString
               THEN ParseInt2(StripKet(basisState.label))
               ELSE [nan |-> FALSE, v |-> basisState.index]
      st == IF ~index.nan /\ index.v >= 0 /\ index.v < Size(n)
            THEN [Zeros(n) EXCEPT ![index.v] = ONE]
            ELSE Zeros(n)
  IN [state |-> st, history |-> <<st>>, operations |-> <<>>]

RECURSIVE SumNorm(_, _)
\* stateVector.reduce((sum, amp) => sum + magnitudeSquared(amp), 0)
SumNorm(v, i) ==
  IF i >= Cardinality(DOMAIN v) THEN Zero
  ELSE Plus(magnitudeSquared(v[i]), SumNorm(v, i + 1))

\* setState(stateVector): [err, eng]
ObjSetState(eng, n, stateVector) ==
  IF Cardinality(DOMAIN stateVector) # Size(n) THEN [err |-> "Error", eng |-> eng]
  ELSE IF FarFromOne(SumNorm(stateVector, 0)) THEN [err |-> "Error", eng |-> eng]
  ELSE [err |-> "none",
        eng |-> [state |-> stateVector,
                 history |-> Append(eng.history, stateVector),
                 operations |-> eng.operations]]

\* reset()
ObjReset(n) == [state |-> ObjFresh(n), history |-> <<ObjFresh(n)>>, operations |-> <<>>]

\* getProbabilities()
ObjGetProbabilities(st) == Array([i \in DOMAIN st |-> magnitudeSquared(st[i])])

(* ------------------------------ sampling ------------------------------- *)

RECURSIVE ToBinary(_)
\* i.toString(2) for i >= 0
ToBinary(i) ==
  IF i < 2 THEN <<IF i = 1 THEN "1" ELSE "0">>
  ELSE ToBinary(i \div 2) \o <<IF i % 2 = 1 THEN "1" ELSE "0">>

\* A padStart that pads nothing.
padStartNone(s, width) == s

RECURSIVE padStart(_, _)
\* s.padStart(width, '0')
padStart(s, width) == IF Len(s) >= width THEN s ELSE padStart(<<"0">> \o s, width)

RECURSIVE WalkBeforeAdding(_, _, _, _)
\* A walk that compares rnd with the cumulative sum before adding probs[i] to it.
WalkBeforeAdding(probs, rnd, i, cumulative) ==
  IF i >= Cardinality(DOMAIN probs) THEN -1
  ELSE IF Less(rnd, cumulative) THEN i
  ELSE WalkBeforeAdding(probs, rnd, i + 1, Plus(cumulative, probs[i]))

RECURSIVE Walk(_, _, _, _)
\* The cumulative walk of one shot: the sampled index, or -1 when the loop ends
\* without rnd < cumulative.
Walk(probs, rnd, i, cumulative) ==
  IF i >= Cardinality(DOMAIN probs) THEN -1
  ELSE LET c == Plus(cumulative, probs[i])
       IN IF Less(rnd, c) THEN i ELSE Walk(probs, rnd, i + 1, c)

RECURSIVE Cumulative(_, _)
Cumulative(probs, i) ==
  IF i = 0 THEN probs[0] ELSE Plus(Cumulative(probs, i - 1), probs[i])

\* The draws that stand for every Math.random() of one shot.
ShotPoints(probs) == RandomPoints({Cumulative(probs, i) : i \in DOMAIN probs})

RECURSIVE Histogram(_, _, _, _, _)
\* for (shot ...) { walk; results.set(bits, (results.get(bits) || 0) + 1) } with the
\* draws rnds[1..shots]; results maps a bitstring to its count.
Histogram(probs, n, rnds, shot, results) ==
  IF shot > Len(rnds) THEN results
  ELSE LET i == Walk(probs, rnds[shot], 0, Zero)
           bits == padStart(ToBinary(i), n)
       IN IF i = -1 THEN Histogram(probs, n, rnds, shot + 1, results)
          ELSE Histogram(probs, n, rnds, shot + 1,
                 IF bits \in DOMAIN results
                 THEN [results EXCEPT ![bits] = @ + 1]
                 ELSE results @@ (bits :> 1))

\* sample(shots) of either engine, given the probability vector it computes
\* before the loop: `shots` iterations, so none for shots <= 0.
Sample(probs, n, rnds) == Histogram(probs, n, rnds, 1, <<>>)

\* The flat engine's sample(shots): [results, buf], the histogram and the buffer
\* as the call leaves it.  probs is filled from the buffer before the loop.
FlatSample(buf, n, rnds) ==
  LET probs == FlatSampleProbs(buf, n)
  IN [results |-> Sample(probs, n, rnds), buf |-> buf]

\* A sample that appends the state to the history, as a mutating call does.
ObjSampleSaving(eng, n, rnds) ==
  [results |-> Sample(ObjGetProbabilities(eng.state), n, rnds),
   eng |-> [eng EXCEPT !.history = Append(@, eng.state)]]

\* The object engine's sample(shots): [results, eng], the histogram and the
\* engine as the call leaves it.  probabilities = this.getProbabilities() is
\* evaluated before the loop.
ObjSample(eng, n, rnds) ==
  LET probabilities == ObjGetProbabilities(eng.state)
  IN [results |-> Sample(probabilities, n, rnds), eng |-> eng]

(* ------------------------- Bloch coordinates --------------------------- *)

Two == Num(2)

RECURSIVE FlatBlochLoop(_, _, _, _, _)
\* The loop of the flat engine's getBlochCoordinates from index i on, with the
\* accumulators acc = [rho00, rho11, rho01]; rho01 += state[i] * conj(state[j]).
FlatBlochLoop(buf, n, mask, i, acc) ==
  IF i >= Size(n) THEN acc
  ELSE LET a == FlatGet(buf, n, i)
           prob == magnitudeSquared(a)
       IN IF BitAnd(i, mask) = 0
          THEN LET b == FlatGet(buf, n, BitOr(i, mask))
               IN FlatBlochLoop(buf, n, mask, i + 1,
                    [rho00 |-> Plus(acc.rho00, prob),
                     rho11 |-> acc.rho11,
                     rho01 |-> add(acc.rho01, multiply(a, conjugate(b)))])
          ELSE FlatBlochLoop(buf, n, mask, i + 1,
                    [acc EXCEPT !.rho11 = Plus(acc.rho11, prob)])

FlatGetBlochCoordinates(buf, n, qubit) ==
  LET r == FlatBlochLoop(buf, n, Shl(1, n - 1 - qubit), 0,
                         [rho00 |-> Zero, rho11 |-> Zero, rho01 |-> ZERO])
  IN [x |-> Times(Two, r.rho01.real),
      y |-> Times(Two, r.rho01.imag),
      z |-> Minus(r.rho00, r.rho11)]

RECURSIVE ObjCross(_, _, _, _)
\* Cross terms: rho01 += conj(state[i]) * state[j] over i with bit 0, j = i | mask
ObjCross(st, n, qubit, i) ==
  IF i >= Size(n) THEN ZERO
  ELSE IF BitOf(i, n, qubit) = 0
  THEN add(multiply(conjugate(st[i]), st[BitOr(i, Shl(1, n - 1 - qubit))]),
           ObjCross(st, n, qubit, i + 1))
  ELSE ObjCross(st, n, qubit, i + 1)

\* Math.min(1, x): NaN when x is NaN
Min1(x) == IF IsNaN(x) THEN NaN ELSE IF Less(One, x) THEN One ELSE x

\* The single-qubit branch takes theta = 2 * acos(min(1, |alpha|)) and
\* phi = arg(beta) - arg(alpha) and returns (sin theta cos phi, sin theta sin phi,
\* cos theta).  With m2 = min(1, |alpha|^2): cos theta = 2 * m2 - 1 and
\* sin theta = 2 * sqrt(m2 * (1 - m2)).  The x and y it returns lie in the ring
\* when alpha = 0 or |alpha| >= 1 (sin theta = 0) and when the state is normalized
\* (sin theta * e^(i phi) = 2 * conj(alpha) * beta).
SingleBlochExpressible(st) ==
  LET m2 == magnitudeSquared(st[0])
  IN \/ IsNaN(m2) \/ IsNaN(magnitudeSquared(st[1]))
     \/ Sign(m2) = 0
     \/ ~Less(m2, One)
     \/ Plus(m2, magnitudeSquared(st[1])) = One

\* [err, x, y, z]: for two or more qubits this.state[j] is undefined when j is
\* outside the array, and multiply(..., undefined) throws a TypeError.
ObjGetBlochCoordinates(st, n, qubit) ==
  IF n = 1
  THEN LET alpha == st[0]
           beta == st[1]
           m2 == Min1(magnitudeSquared(alpha))
           pole == Sign(m2) = 0 \/ m2 = One
           cross == multiply(conjugate(alpha), beta)
       IN [err |-> "none",
           x |-> IF IsNaN(m2) \/ IsNaN(cross.real) THEN NaN
                 ELSE IF pole THEN Zero ELSE Times(Two, cross.real),
           y |-> IF IsNaN(m2) \/ IsNaN(cross.imag) THEN NaN
                 ELSE IF pole THEN Zero ELSE Times(Two, cross.imag),
           z |-> Minus(Times(Two, m2), One)]
  ELSE IF \E i \in DOMAIN st :
            BitOf(i, n, qubit) = 0 /\ BitOr(i, Shl(1, n - 1 - qubit)) \notin DOMAIN st
  THEN [err |-> "TypeError", x |-> NaN, y |-> NaN, z |-> NaN]
  ELSE LET rho01 == ObjCross(st, n, qubit, 0)
       IN [err |-> "none",
           x |-> Times(Two, rho01.real),
           y |-> Times(Two, rho01.imag),
           z |-> Minus(ProbOfBit(st, n, qubit, 0, 0), ProbOfBit(st, n, qubit, 1, 0))]

(* ------------------- validators.ts (not called by the engines) --------- *)

\* validateQubitIndex: the error code raised, "none" when the index passes.
validateQubitIndex(index, numQ) ==
  IF index < 0 \/ index >= numQ THEN "INVALID_QUBIT_INDEX" ELSE "none"

\* validateQubitArray: the error code raised, "none" when the array passes.
validateQubitArray(qubits, requiredCount, numQ) ==
  IF Len(qubits) # requiredCount THEN "INSUFFICIENT_QUBITS"
  ELSE IF Cardinality({qubits[k] : k \in DOMAIN qubits}) # Len(qubits)
  THEN "DUPLICATE_QUBITS"
  ELSE IF \E k \in DOMAIN qubits : validateQubitIndex(qubits[k], numQ) # "none"
  THEN "INVALID_QUBIT_INDEX"
  ELSE "none"

\* validateStateVector: length, then finite amplitudes, then normalization.
\* LIMITS.MIN_QUBITS and LIMITS.MAX_QUBITS
MIN_QUBITS == 1
MAX_QUBITS == 20

\* validateQubitCount(numQubits) for an integer count: "none" or the error code
validateQubitCount(numQ) ==
  IF numQ < MIN_QUBITS THEN "INVALID_QUBIT_COUNT"
  ELSE IF numQ > MAX_QUBITS THEN "MEMORY_LIMIT"
  ELSE "none"

\* LIMITS.MAX_SHOTS
MAX_SHOTS == 100000

\* validateShots(shots) for an integer count: "none" or the error code
validateShots(shots) ==
  IF shots < 1 THEN "INVALID_QUBIT_COUNT"
  ELSE IF shots > MAX_SHOTS THEN "MEMORY_LIMIT"
  ELSE "none"

\* validateGateParams(gateName, params, gateInfo): "none" or the error code.  A
\* parameter fails Number.isFinite when it is NaN.
validateGateParams(g, params) ==
  IF GATE_LIBRARY[g].params > 0 /\ Len(params) = 0 THEN "INVALID_GATE_PARAMS"
  ELSE IF \E i \in DOMAIN params : params[i].nan THEN "INVALID_GATE_PARAMS"
  ELSE "none"

validateStateVector(stateVector, numQ) ==
  IF Cardinality(DOMAIN stateVector) # Size(numQ) THEN "INVALID_STATE_VECTOR"
  ELSE IF \E i \in DOMAIN stateVector :
            stateVector[i].real.k # "num" \/ stateVector[i].imag.k # "num"
  THEN "INVALID_STATE_VECTOR"
  ELSE IF FarFromOne(SumNorm(stateVector, 0)) THEN "STATE_NOT_NORMALIZED"
  ELSE "none"

\* validateBasisState: cleaned = state.replace(/[|⟩<>]/g, ''), /^[01]+$/, length.
validateBasisState(label, numQ) ==
  LET cleaned == SelectSeq(label, LAMBDA ch : ch \notin {"|", ">", "<"})
  IN IF cleaned = <<>> \/ \E k \in DOMAIN cleaned : cleaned[k] \notin {"0", "1"}
     THEN "INVALID_STATE_VECTOR"
     ELSE IF Len(cleaned) # numQ THEN "INVALID_STATE_VECTOR"
     ELSE "none"

(* ------------------- part_010: the store (useQuantumStore) ------------- *)

\* null, for the fields simulator and simulationResult
Null == [null |-> TRUE]

\* new QuantumSimulator(n): the store holds the flat engine
Simulator(n, buf) == [null |-> FALSE, numQubits |-> n, state |-> buf]

\* A CircuitGate; params stays <<>> when addGate is called without params.
CircuitGate(id, gate, qubits, params, step) ==
  [id |-> id, gate |-> gate, qubits |-> qubits, params |-> params, step |-> step]

\* The initial state of the store (the fields of the UI, the chat and the
\* settings are left out: no action below reads them).
InitialStore ==
  [simulator |-> Null, numQubits |-> 2, circuitGates |-> <<>>, simulationResult |-> Null,
   isRunning |-> FALSE, lastRunId |-> 0, history |-> << <<>> >>, historyIndex |-> 0]

\* The snapshots kept: trimmedHistory = newHistory.slice(-50)
HISTORY_LIMIT == 50

\* A slice that keeps the first k elements, not the last k.
SliceFirst(seq, k) == IF Len(seq) <= k THEN seq ELSE SubSeq(seq, 1, k)

\* seq.slice(-k)
SliceLast(seq, k) == IF Len(seq) <= k THEN seq ELSE SubSeq(seq, Len(seq) - k + 1, Len(seq))

\* newHistory = [...history.slice(0, historyIndex + 1), gates]; trimmedHistory =
\* newHistory.slice(-50); set({ history: trimmedHistory, historyIndex:
\* trimmedHistory.length - 1 })
PushSnapshot(s, gates) ==
  LET newHistory == Append(SubSeq(s.history, 1, s.historyIndex + 1), gates)
      trimmedHistory == SliceLast(newHistory, HISTORY_LIMIT)
  IN [s EXCEPT !.history = trimmedHistory, !.historyIndex = Len(trimmedHistory) - 1]

initSimulator(s, n) ==
  [PushSnapshot(s, <<>>) EXCEPT
     !.simulator = Simulator(n, FlatFresh(n)), !.numQubits = n,
     !.circuitGates = <<>>, !.simulationResult = Null]

RECURSIVE MaxStep(_, _)
\* Math.max(...circuitGates.map(g => g.step)) over the gates from k on
MaxStep(gates, k) ==
  IF k = Len(gates) THEN gates[k].step
  ELSE LET rest == MaxStep(gates, k + 1)
       IN IF gates[k].step > rest THEN gates[k].step ELSE rest

\* addGate(gate, qubits) without params and step; id is what generateId() returns.
addGate(s, id, gate, qubits) ==
  IF s.simulator.null THEN s
  ELSE LET targetStep == IF Len(s.circuitGates) > 0 THEN MaxStep(s.circuitGates, 1) + 1 ELSE 0
           newGates == Append(s.circuitGates, CircuitGate(id, gate, qubits, <<>>, targetStep))
       IN [PushSnapshot(s, newGates) EXCEPT !.circuitGates = newGates]

removeGate(s, gateId) ==
  LET newGates == SelectSeq(s.circuitGates, LAMBDA g : g.id # gateId)
  IN [PushSnapshot(s, newGates) EXCEPT !.circuitGates = newGates]

clearCircuit(s) ==
  [PushSnapshot(s, <<>>) EXCEPT
     !.simulator = Simulator(s.numQubits, FlatFresh(s.numQubits)),
     !.circuitGates = <<>>, !.simulationResult = Null]

RECURSIVE ParsedQubits(_, _, _)
\* numQubits = 2; per line: if it matches /QuantumSimulator\((\d+)\)/, numQubits =
\* parseInt(match).  A line is given by what the two patterns match in it:
\* [count (-1: no match), gate ("": no match), args].
ParsedQubits(lines, k, n) ==
  IF k > Len(lines) THEN n
  ELSE ParsedQubits(lines, k + 1, IF lines[k].count >= 0 THEN lines[k].count ELSE n)

RECURSIVE ParsedGates(_, _, _, _)
\* per line matching /sim\.apply\(['"](\w+)['"],?\s*(.+)?\)/: gates.push({ id,
\* gate, qubits: args, step: step++ }); ids[i] is the i-th generateId().
ParsedGates(lines, k, ids, gates) ==
  IF k > Len(lines) THEN gates
  ELSE ParsedGates(lines, k + 1, ids,
         IF lines[k].gate # ""
         THEN Append(gates, CircuitGate(ids[Len(gates) + 1], lines[k].gate, lines[k].args,
                                        <<>>, Len(gates)))
         ELSE gates)

\* loadCircuitFromCode(code); a gate pushed here has no params field.
loadCircuitFromCode(s, lines, ids) ==
  LET n == ParsedQubits(lines, 1, 2)
      gates == ParsedGates(lines, 1, ids, <<>>)
  IN [PushSnapshot(s, gates) EXCEPT
        !.simulator = Simulator(n, FlatFresh(n)), !.numQubits = n,
        !.circuitGates = gates, !.simulationResult = Null]

\* reset()
reset(s) ==
  [simulator |-> Simulator(2, FlatFresh(2)), numQubits |-> 2, circuitGates |-> <<>>,
   simulationResult |-> Null, isRunning |-> FALSE, lastRunId |-> 0,
   history |-> << <<>> >>, historyIndex |-> 0]

canUndo(s) == s.historyIndex > 0

canRedo(s) == s.historyIndex < Len(s.history) - 1

\* undo that reads the snapshot at historyIndex, not the one before it.
undoOffByOne(s) ==
  IF s.historyIndex > 0
  THEN [s EXCEPT !.circuitGates = s.history[s.historyIndex + 1],
                 !.historyIndex = s.historyIndex - 1]
  ELSE s

undo(s) ==
  IF s.historyIndex > 0
  THEN [s EXCEPT !.circuitGates = s.history[s.historyIndex], !.historyIndex = s.historyIndex - 1]
  ELSE s

redo(s) ==
  IF s.historyIndex < Len(s.history) - 1
  THEN [s EXCEPT !.circuitGates = s.history[s.historyIndex + 2],
                 !.historyIndex = s.historyIndex + 1]
  ELSE s

\* runSimulation(), the part that runs at once: the store afterwards, and
\* whether a callback was handed to setTimeout.  runId is what Math.random()
\* returns.
runSimulation(s, runId) ==
  IF Len(s.circuitGates) = 0
  THEN [store |-> [s EXCEPT !.simulationResult = Null, !.isRunning = FALSE],
        scheduled |-> FALSE]
  ELSE [store |-> [s EXCEPT !.isRunning = TRUE, !.lastRunId = runId], scheduled |-> TRUE]

\* What the callback of runSimulation keeps from the call: runId, and the
\* numQubits and circuitGates read by get() before setTimeout.
Timer(s, runId) == [runId |-> runId, numQubits |-> s.numQubits, circuitGates |-> s.circuitGates]

RECURSIVE InsertByStep(_, _)
\* g placed behind every gate of the sorted sequence whose step is <= g.step
InsertByStep(sorted, g) ==
  IF sorted = <<>> THEN <<g>>
  ELSE IF sorted[Len(sorted)].step <= g.step THEN Append(sorted, g)
  ELSE Append(InsertByStep(SubSeq(sorted, 1, Len(sorted) - 1), g), sorted[Len(sorted)])

RECURSIVE SortByStep(_)
\* [...circuitGates].sort((a, b) => a.step - b.step): a stable sort
SortByStep(gates) ==
  IF gates = <<>> THEN <<>>
  ELSE InsertByStep(SortByStep(SubSeq(gates, 1, Len(gates) - 1)), gates[Len(gates)])

RECURSIVE ApplySorted(_, _, _, _)
\* for (const gate of sortedGates) simulator.apply(gate.gate, [gate.params,]
\* ...gate.qubits), from the k-th gate on; stops at the first apply that throws.
ApplySorted(buf, n, sortedGates, k) ==
  IF k > Len(sortedGates) THEN [err |-> "none", buf |-> buf]
  ELSE LET r == FlatApply(buf, n, sortedGates[k].gate, sortedGates[k].params,
                          sortedGates[k].qubits)
       IN IF r.err # "none" THEN r ELSE ApplySorted(r.buf, n, sortedGates, k + 1)

\* { stateVector, probabilities, blochCoordinates } of the simulator of a run
SimulationResult(buf, n) ==
  [null |-> FALSE,
   stateVector |-> FlatGetState(buf, n),
   probabilities |-> FlatGetProbabilities(buf, n),
   blochCoordinates |-> Array([i \in 0..(n - 1) |-> FlatGetBlochCoordinates(buf, n, i)])]

\* timerCallback whose catch block leaves the store as it is.
timerCallbackSilentCatch(s, t) ==
  IF s.lastRunId # t.runId THEN s
  ELSE LET r == ApplySorted(FlatFresh(t.numQubits), t.numQubits,
                            SortByStep(t.circuitGates), 1)
       IN IF r.err = "none"
          THEN [s EXCEPT !.simulator = Simulator(t.numQubits, r.buf),
                         !.simulationResult = SimulationResult(r.buf, t.numQubits),
                         !.isRunning = FALSE]
          ELSE s

\* The callback handed to setTimeout by runSimulation, run on the store s.
timerCallback(s, t) ==
  IF s.lastRunId # t.runId THEN s
  ELSE LET r == ApplySorted(FlatFresh(t.numQubits), t.numQubits,
                            SortByStep(t.circuitGates), 1)
       IN IF r.err = "none"
          THEN [s EXCEPT !.simulator = Simulator(t.numQubits, r.buf),
                         !.simulationResult = SimulationResult(r.buf, t.numQubits),
                         !.isRunning = FALSE]
          ELSE [s EXCEPT !.isRunning = FALSE, !.simulationResult = Null]

(* ------------------------------ the system ----------------------------- *)

VARIABLES
  numQubits,    \* both engines' numQubits
  fstate,       \* flat engine: this.state (Float64Array)
  state,        \* object engine: this.state
  history,      \* object engine: this.history
  operations,   \* object engine: this.operations
  calls,        \* the mutating calls made since construction, in order
  made,         \* how much of the call budget they have used
  last,         \* what the latest call returned or threw
  store,        \* the store: the fields of useQuantumStore's state
  timers,       \* the callbacks handed to setTimeout and not yet run, oldest first
  ran           \* what the latest of these callbacks did when it ran

vars == <<numQubits, fstate, state, history, operations, calls, made, last,
          store, timers, ran>>

\* The engines constructed directly, outside the store.
engineVars == <<numQubits, fstate, state, history, operations, calls, made, last>>

storeVars == <<store, timers, ran>>

\* No callback has run yet.
NoRun == [fired |-> FALSE, superseded |-> FALSE, changed |-> FALSE]

Eng == [state |-> state, history |-> history, operations |-> operations]

Call(op, g, qubits, arg) == [op |-> op, gate |-> g, qubits |-> qubits, arg |-> arg]

NoBloch == [err |-> "none", x |-> Zero, y |-> Zero, z |-> Zero]

\* The result of a call: the exception each engine threw ("none": it returned;
\* "absent": the engine has no such method) and the values returned.  query is
\* TRUE for the read-only calls (sample, getBlochCoordinates, getState,
\* getProbabilities).
NoResult ==
  [op |-> "construct", query |-> FALSE, ferr |-> "none", oerr |-> "none",
   qubit |-> 0, rnds |-> <<>>, outcome |-> 0, probability |-> Zero, results |-> <<>>,
   fhist |-> <<>>, ohist |-> <<>>, fbloch |-> NoBloch, obloch |-> NoBloch,
   gate |-> "", dim |-> 0, row |-> 0, col |-> 0, entry |-> ZERO,
   index |-> 0, flen |-> 0, olen |-> 0, fdefined |-> FALSE, odefined |-> FALSE,
   fentry |-> ZERO, oentry |-> ZERO]

\* Gates the model applies, and the qubit arguments it passes.
ApplyGates == {"X", "H", "CNOT", "Toffoli"}
QubitArgs(n) == (-1)..n
ArgTuples(n, k) == [1..k -> QubitArgs(n)]
ValidTuples(n, k) == {t \in ArgTuples(n, k) : validateQubitArray(t, k, n) = "none"}

\* Arguments of initialize: indices around the ends of the range, the label of
\* the last basis state, and a label that is not binary.
OnesLabel(n) == <<"|">> \o [k \in 1..n |-> "1"] \o <<">">>
BasisStates(n) ==
  {[isString |-> FALSE, label |-> <<>>, index |-> i] : i \in {-1, Size(n) - 1, Size(n)}}
    \cup {[isString |-> TRUE, label |-> l, index |-> 0] : l \in {OnesLabel(n), <<"|", "2", ">">>}}

\* Arguments of setState: the last basis state, the uniform superposition, a
\* vector of norm 2^n, a vector of the wrong length, a vector holding NaN.
StateVectors(n) ==
  {[Zeros(n) EXCEPT ![Size(n) - 1] = ONE],
   [i \in 0..(Size(n) - 1) |-> re(Reduce(1 - (n % 2), n % 2, (n + 1) \div 2))],
   [i \in 0..(Size(n) - 1) |-> ONE],
   [i \in 0..0 |-> ONE],
   [Zeros(n) EXCEPT ![0] = complex(NaN, Zero)]}

\* Runs on fewer qubits than MaxQubits are explored one call deeper.
Budget(n) == IF n < MaxQubits THEN MaxCalls + 1 ELSE MaxCalls

\* Preparation of a basis state: apply('X', q) in ascending q at the start of a run
\* is not counted against the budget.
IsPrep(g, qubits) ==
  /\ made = 0
  /\ g = "X"
  /\ validateQubitArray(qubits, 1, numQubits) = "none"
  /\ \A k \in DOMAIN calls : calls[k].qubits[1] < qubits[1]

TypeOK ==
  /\ numQubits \in 1..MaxQubits
  /\ DOMAIN fstate = 0..(2 * Size(numQubits) - 1)
  /\ DOMAIN state = 0..(Size(numQubits) - 1)
  /\ made \in 0..(Budget(numQubits) + CircuitDepth)

\* new QuantumSimulator(n) of both engines
Init ==
  /\ numQubits \in 1..MaxQubits
  /\ fstate = FlatFresh(numQubits)
  /\ state = ObjFresh(numQubits)
  /\ history = <<ObjFresh(numQubits)>>
  /\ operations = <<>>
  /\ calls = <<>>
  /\ made = 0
  /\ last = NoResult
  /\ store = InitialStore
  /\ timers = <<>>
  /\ ran = NoRun

\* The bookkeeping of one mutating call: the run has made no query yet, the call
\* fits the budget, and it is logged.  A call whose arguments the validators
\* would reject (isFault) is the last call of its run.
AccountWithin(c, isPrep, isFault, budget) ==
  /\ ~last.query
  /\ isPrep \/ made < budget
  /\ calls' = Append(calls, c)
  /\ made' = IF isPrep THEN made ELSE IF isFault THEN budget ELSE made + 1

Account(c, isPrep, isFault) == AccountWithin(c, isPrep, isFault, Budget(numQubits))

SetEng(e) ==
  /\ state' = e.state
  /\ history' = e.history
  /\ operations' = e.operations

\* apply(gateName, params, ...qubits) on both engines, in a run of at most
\* `budget` counted calls
ApplyFor(g, params, qubits, budget) ==
  LET f == FlatApply(fstate, numQubits, g, params, qubits)
      o == ObjApply(Eng, numQubits, g, params, qubits)
  IN /\ AccountWithin(Call("apply", g, qubits, params), IsPrep(g, qubits),
                      \/ validateQubitArray(qubits, GATE_LIBRARY[g].qubits, numQubits) # "none"
                      \/ validateGateParams(g, params) # "none",
                      budget)
     /\ fstate' = f.buf
     /\ SetEng(o.eng)
     /\ last' = [NoResult EXCEPT !.op = "apply", !.ferr = f.err, !.oerr = o.err]
     /\ UNCHANGED <<numQubits, store, timers, ran>>

\* apply(gateName, ...qubits) on both engines
Apply(g, qubits) == ApplyFor(g, <<>>, qubits, Budget(numQubits))

\* measure(qubit): the object engine only
Measure(qubit) ==
  \E random \in IF validateQubitIndex(qubit, numQubits) = "none"
                THEN MeasureDraws(state, numQubits, qubit)
                ELSE {Zero} :
    LET r == ObjMeasure(Eng, numQubits, qubit, random)
    IN /\ Account(Call("measure", "", <<qubit>>, random), FALSE,
                  validateQubitIndex(qubit, numQubits) # "none")
       /\ SetEng(r.eng)
       /\ last' = [NoResult EXCEPT !.op = "measure", !.ferr = "absent", !.oerr = r.err,
                                   !.qubit = qubit, !.outcome = r.outcome,
                                   !.probability = r.probability]
       /\ UNCHANGED <<numQubits, fstate, store, timers, ran>>

\* measureAll(): the object engine only
MeasureAll ==
  \E r \in ObjMeasureAll(Eng, numQubits, 0, <<>>) :
    /\ Account(Call("measureAll", "", <<>>, <<>>), FALSE, FALSE)
    /\ SetEng(r.eng)
    /\ last' = [NoResult EXCEPT !.op = "measureAll", !.ferr = "absent",
                                !.results = r.results]
    /\ UNCHANGED <<numQubits, fstate, store, timers, ran>>

\* initialize(basisState): the object engine only
Initialize(basisState) ==
  /\ Account(Call("initialize", "", <<>>, basisState), FALSE,
             IF basisState.isString
             THEN validateBasisState(basisState.label, numQubits) # "none"
             ELSE basisState.index \notin 0..(Size(numQubits) - 1))
  /\ SetEng(ObjInitialize(numQubits, basisState))
  /\ last' = [NoResult EXCEPT !.op = "initialize", !.ferr = "absent"]
  /\ UNCHANGED <<numQubits, fstate, store, timers, ran>>

\* setState(stateVector): the object engine only
SetState(stateVector) ==
  LET r == ObjSetState(Eng, numQubits, stateVector)
  IN /\ Account(Call("setState", "", <<>>, stateVector), FALSE,
                validateStateVector(stateVector, numQubits) # "none")
     /\ SetEng(r.eng)
     /\ last' = [NoResult EXCEPT !.op = "setState", !.ferr = "absent", !.oerr = r.err]
     /\ UNCHANGED <<numQubits, fstate, store, timers, ran>>

\* reset(): the object engine only
Reset ==
  /\ Account(Call("reset", "", <<>>, <<>>), FALSE, FALSE)
  /\ SetEng(ObjReset(numQubits))
  /\ last' = [NoResult EXCEPT !.op = "reset", !.ferr = "absent"]
  /\ UNCHANGED <<numQubits, fstate, store, timers, ran>>

\* sample(shots) on both engines, with the same draws rnds[1..shots].  Each engine
\* computes its probability vector once, before the loop over the shots.
SampleBoth(rnds) ==
  LET f == FlatSample(fstate, numQubits, rnds)
      o == ObjSample(Eng, numQubits, rnds)
  IN /\ ~last.query
     /\ fstate' = f.buf
     /\ SetEng(o.eng)
     /\ last' = [NoResult EXCEPT
                   !.op = "sample", !.query = TRUE, !.rnds = rnds,
                   !.fhist = f.results, !.ohist = o.results]
     /\ UNCHANGED <<numQubits, calls, made, store, timers, ran>>

\* getBlochCoordinates(qubit) on both engines
Bloch(qubit) ==
  LET f == FlatGetBlochCoordinates(fstate, numQubits, qubit)
  IN /\ ~last.query
     /\ numQubits = 1 => SingleBlochExpressible(state)
     /\ last' = [NoResult EXCEPT
                   !.op = "bloch", !.query = TRUE, !.qubit = qubit,
                   !.fbloch = [err |-> "none", x |-> f.x, y |-> f.y, z |-> f.z],
                   !.obloch = ObjGetBlochCoordinates(state, numQubits, qubit)]
     /\ UNCHANGED <<numQubits, fstate, state, history, operations, calls, made,
                   store, timers, ran>>

\* The draws that stand for every Math.random() of one shot on either engine.
BothShotPoints ==
  ShotPoints(FlatSampleProbs(fstate, numQubits)) \cup ShotPoints(ObjGetProbabilities(state))

\* Every mutating call of the two engines, with arguments inside and outside
\* their ranges.
Next ==
  \/ \E g \in ApplyGates :
       \E qubits \in ArgTuples(numQubits, GATE_LIBRARY[g].qubits) : Apply(g, qubits)
  \/ \E qubit \in QubitArgs(numQubits) : Measure(qubit)
  \/ MeasureAll
  \/ \E basisState \in BasisStates(numQubits) : Initialize(basisState)
  \/ \E stateVector \in StateVectors(numQubits) : SetState(stateVector)
  \/ Reset

Spec == Init /\ [][Next]_vars

\* Calls with valid arguments, followed by one read-only call.
NextQuery ==
  \/ \E g \in ApplyGates :
       \E qubits \in ValidTuples(numQubits, GATE_LIBRARY[g].qubits) : Apply(g, qubits)
  \/ \E qubit \in 0..(numQubits - 1) : Measure(qubit)
  \/ \E shots \in 0..MaxShots : \E rnds \in [1..shots -> BothShotPoints] : SampleBoth(rnds)
  \/ \E qubit \in QubitArgs(numQubits) : Bloch(qubit)

SpecQuery == Init /\ [][NextQuery]_vars

\* Gates of the runs that only apply gates to valid qubits.
CircuitGates == {"H", "S"}

\* A basis state prepared by X gates, then up to CircuitDepth gates on valid qubits.
NextCircuit ==
  \/ \E q \in 0..(numQubits - 1) :
       IsPrep("X", <<q>>) /\ ApplyFor("X", <<>>, <<q>>, CircuitDepth)
  \/ \E g \in CircuitGates : \E q \in 0..(numQubits - 1) :
       ApplyFor(g, <<>>, <<q>>, CircuitDepth)

SpecCircuit == Init /\ [][NextCircuit]_vars

\* Parameterized gates the model applies, and the parameter arrays it passes:
\* none, pi, NaN, and arrays of 2, 3 and 4 values.
ParamGates == {"Rx", "U3", "CPhase"}
AnglePi == Angle(2)
ParamLists ==
  {<<>>, <<AnglePi>>, <<NaNAngle>>, <<AnglePi, AnglePi>>, <<AnglePi, NaNAngle, AnglePi>>,
   <<AnglePi, AnglePi, AnglePi>>, <<AnglePi, AnglePi, AnglePi, AnglePi>>}

\* A basis state prepared by X gates, then parameterized gates on valid qubits.
NextParams ==
  \/ \E q \in 0..(numQubits - 1) :
       IsPrep("X", <<q>>) /\ ApplyFor("X", <<>>, <<q>>, Budget(numQubits))
  \/ \E g \in ParamGates : \E params \in ParamLists :
       \E qubits \in ValidTuples(numQubits, GATE_LIBRARY[g].qubits) :
         ApplyFor(g, params, qubits, Budget(numQubits))

SpecParams == Init /\ [][NextParams]_vars

\* A basis state prepared by X gates, then up to BlochDepth gates on valid qubits,
\* then one getBlochCoordinates(q) for a valid qubit q.
NextBloch ==
  \/ \E q \in 0..(numQubits - 1) :
       IsPrep("X", <<q>>) /\ ApplyFor("X", <<>>, <<q>>, BlochDepth)
  \/ \E g \in CircuitGates : \E q \in 0..(numQubits - 1) :
       ApplyFor(g, <<>>, <<q>>, BlochDepth)
  \/ \E qubit \in 0..(numQubits - 1) : Bloch(qubit)

SpecBloch == Init /\ [][NextBloch]_vars

\* Qubit counts passed to the constructors.
ConstructArgs == 0..MaxQubits

\* new QuantumSimulator(n) of both engines for n in ConstructArgs: neither
\* constructor tests n, and for n >= 0 both allocate 2^n amplitudes and return.
InitConstruct ==
  /\ numQubits \in ConstructArgs
  /\ fstate = FlatFresh(numQubits)
  /\ state = ObjFresh(numQubits)
  /\ history = <<ObjFresh(numQubits)>>
  /\ operations = <<>>
  /\ calls = <<>>
  /\ made = 0
  /\ last = NoResult
  /\ store = InitialStore
  /\ timers = <<>>
  /\ ran = NoRun

\* Construction with any of these counts, then the calls of NextQuery.
SpecConstruct == InitConstruct /\ [][NextQuery]_vars

\* The entries of GATE_LIBRARY whose matrix is a constant.
ConstantGates == {g \in DOMAIN GATE_LIBRARY : ~GATE_LIBRARY[g].isFunction}

\* One entry of G-dagger times G for the constant gate g, as isUnitary forms it:
\* product = matrixMultiply(conjugateTranspose(m), m).
GateProduct(g, i, j) ==
  LET matrix == GateMatrix(g, <<>>)
      product == matrixMultiply(conjugateTranspose(matrix), matrix)
  IN /\ ~last.query
     /\ last' = [NoResult EXCEPT !.op = "isUnitary", !.query = TRUE, !.gate = g,
                                 !.dim = Rows(matrix), !.row = i, !.col = j,
                                 !.entry = product[i][j]]
     /\ UNCHANGED <<numQubits, fstate, state, history, operations, calls, made,
                   store, timers, ran>>

\* The unitarity check over the gate library, entry by entry.
NextGates ==
  \E g \in ConstantGates :
    \E i \in 0..(Rows(GateMatrix(g, <<>>)) - 1) :
      \E j \in 0..(Cols(GateMatrix(g, <<>>)) - 1) : GateProduct(g, i, j)

SpecGates == Init /\ [][NextGates]_vars

\* A basis state prepared by X gates, then apply calls that pass validation:
\* a known gate on in-range, pairwise distinct qubits in any order.
NextApply ==
  \E g \in ApplyGates :
    \E qubits \in ValidTuples(numQubits, GATE_LIBRARY[g].qubits) : Apply(g, qubits)

SpecApply == Init /\ [][NextApply]_vars

\* Indices at which the returned arrays are read.
ReadIndices(n) == {i \in {0, 1, 2, 3, Size(n) \div 2, Size(n) - 1} : i < Size(n)}

\* A zero-filled array too long to enumerate: its length and the cells that
\* have been assigned; every other cell holds `zero`.
Filled(length, zero, cells) == [length |-> length, zero |-> zero, cells |-> cells]
At(arr, k) == IF k \in DOMAIN arr.cells THEN arr.cells[k] ELSE arr.zero

\* new Float64Array(stateSize * 2) with state[0] = 1.0
FlatFreshFilled(n) == Filled(2 * Size(n), Zero, 0 :> One)

\* Array(stateSize).fill(null).map(() => ({ ...ZERO })) with state[0] = { ...ONE }
ObjFreshFilled(n) == Filled(Size(n), ZERO, 0 :> ONE)

\* getState() and getProbabilities() of the flat engine on such a buffer
FlatGetStateFilled(buf, n) ==
  [i \in 0..(ResultSize(n) - 1) |-> complex(At(buf, 2 * i), At(buf, 2 * i + 1))]

FlatGetProbabilitiesFilled(buf, n) ==
  [i \in 0..(ResultSize(n) - 1) |->
     Plus(Times(At(buf, 2 * i), At(buf, 2 * i)), Times(At(buf, 2 * i + 1), At(buf, 2 * i + 1)))]

\* getState() ([...this.state]) and getProbabilities() of the object engine
ObjGetStateFilled(st) == [i \in 0..(st.length - 1) |-> At(st, i)]

ObjGetProbabilitiesFilled(st) == [i \in 0..(st.length - 1) |-> magnitudeSquared(At(st, i))]

\* new QuantumSimulator(n) of both engines for every supported qubit count
InitRead ==
  /\ numQubits \in MIN_QUBITS..MAX_QUBITS
  /\ fstate = FlatFreshFilled(numQubits)
  /\ state = ObjFreshFilled(numQubits)
  /\ history = <<ObjFreshFilled(numQubits)>>
  /\ operations = <<>>
  /\ calls = <<>>
  /\ made = 0
  /\ last = NoResult
  /\ store = InitialStore
  /\ timers = <<>>
  /\ ran = NoRun

\* The lengths of the arrays a getter returned on the two engines, and their
\* elements at `index` (reading past the end of an array gives undefined).
Read(op, index, f, o, zero) ==
  LET flen == Cardinality(DOMAIN f)
      olen == Cardinality(DOMAIN o)
  IN [NoResult EXCEPT
        !.op = op, !.query = TRUE, !.index = index,
        !.flen = flen, !.olen = olen,
        !.fdefined = index < flen, !.odefined = index < olen,
        !.fentry = IF index < flen THEN f[index] ELSE zero,
        !.oentry = IF index < olen THEN o[index] ELSE zero]

\* getState() on both engines
GetState(index) ==
  /\ ~last.query
  /\ last' = Read("getState", index, FlatGetStateFilled(fstate, numQubits),
                  ObjGetStateFilled(state), ZERO)
  /\ UNCHANGED <<numQubits, fstate, state, history, operations, calls, made,
                   store, timers, ran>>

\* getProbabilities() on both engines
GetProbabilities(index) ==
  /\ ~last.query
  /\ last' = Read("getProbabilities", index, FlatGetProbabilitiesFilled(fstate, numQubits),
                  ObjGetProbabilitiesFilled(state), Zero)
  /\ UNCHANGED <<numQubits, fstate, state, history, operations, calls, made,
                   store, timers, ran>>

\* A new engine of either kind, read once.
NextRead ==
  \/ \E index \in ReadIndices(numQubits) : GetState(index)
  \/ \E index \in ReadIndices(numQubits) : GetProbabilities(index)

SpecRead == InitRead /\ [][NextRead]_vars

(* ------------------------ the store as a system ------------------------ *)

\* The store before any action; the engines outside the store are not used.
InitStore ==
  /\ numQubits = MIN_QUBITS
  /\ fstate = FlatFresh(numQubits)
  /\ state = ObjFresh(numQubits)
  /\ history = <<ObjFresh(numQubits)>>
  /\ operations = <<>>
  /\ calls = <<>>
  /\ made = 0
  /\ last = NoResult
  /\ store = InitialStore
  /\ timers = <<>>
  /\ ran = NoRun

\* Arguments of initSimulator and addGate: 'Nope' is no key of GATE_LIBRARY, so
\* apply('Nope', 0) throws.
StoreQubits == {1, 2}
StoreGates == {[gate |-> "H", qubits |-> <<0>>], [gate |-> "Nope", qubits |-> <<0>>]}

\* Arguments of loadCircuitFromCode: an empty text, and a program of three lines.
Codes ==
  {<<>>,
   <<[count |-> 1, gate |-> "", args |-> <<>>],
     [count |-> -1, gate |-> "H", args |-> <<0>>],
     [count |-> -1, gate |-> "", args |-> <<>>]>>}

\* generateId() and Math.random() return values not in use: ids stand for the
\* strings and numbers drawn, the smallest unused one for any fresh one.
UsedIds(s) ==
  {s.circuitGates[j].id : j \in DOMAIN s.circuitGates}
    \cup UNION {{s.history[k][j].id : j \in DOMAIN s.history[k]} : k \in DOMAIN s.history}

FreshIds(s, count) ==
  LET first == CHOOSE i \in 1..(Cardinality(UsedIds(s)) + 1) :
                 /\ i \notin UsedIds(s)
                 /\ \A j \in 1..(i - 1) : j \in UsedIds(s)
  IN [k \in 1..count |-> first + k - 1]

UsedRunIds == {store.lastRunId} \cup {timers[k].timer.runId : k \in DOMAIN timers}

FreshRunId ==
  CHOOSE r \in 1..(Cardinality(UsedRunIds) + 1) :
    r \notin UsedRunIds /\ \A j \in 1..(r - 1) : j \in UsedRunIds

\* Every waiting callback now belongs to a run that a later runSimulation or a
\* reset has followed.
Superseded(queue) == [k \in DOMAIN queue |-> [queue[k] EXCEPT !.superseded = TRUE]]

\* A store action that sets no timer.
Edit(s) ==
  /\ store' = s
  /\ UNCHANGED <<timers, ran>>
  /\ UNCHANGED engineVars

InitSimulator(n) == Edit(initSimulator(store, n))

AddGate(gate, qubits) == Edit(addGate(store, FreshIds(store, 1)[1], gate, qubits))

RemoveGate(gateId) == Edit(removeGate(store, gateId))

ClearCircuit == Edit(clearCircuit(store))

LoadCircuitFromCode(lines) == Edit(loadCircuitFromCode(store, lines, FreshIds(store, Len(lines))))

Undo == Edit(undo(store))

Redo == Edit(redo(store))

StoreReset ==
  /\ store' = reset(store)
  /\ timers' = Superseded(timers)
  /\ UNCHANGED ran
  /\ UNCHANGED engineVars

RunSimulation ==
  LET runId == FreshRunId
      r == runSimulation(store, runId)
  IN /\ store' = r.store
     /\ timers' = IF r.scheduled
                  THEN Append(Superseded(timers),
                              [timer |-> Timer(store, runId), superseded |-> FALSE])
                  ELSE Superseded(timers)
     /\ UNCHANGED ran
     /\ UNCHANGED engineVars

\* The oldest waiting callback runs (all are set with delay 0).
Fire ==
  /\ timers # <<>>
  /\ store' = timerCallback(store, Head(timers).timer)
  /\ ran' = [fired |-> TRUE, superseded |-> Head(timers).superseded,
             changed |-> store' # store]
  /\ timers' = Tail(timers)
  /\ UNCHANGED engineVars

\* The ids of the gates of the circuit, and an id no gate has.
GateIds == {store.circuitGates[j].id : j \in DOMAIN store.circuitGates} \cup {0}

\* An edit may add a snapshot while the history it leaves is within `limit`.
Room(limit) == store.historyIndex + 2 <= limit

\* runSimulation, the edits of the circuit, undo, redo and reset, interleaved
\* with the timer callbacks.
NextRuns ==
  \/ Room(RunSnapshots) /\ \E g \in StoreGates : AddGate(g.gate, g.qubits)
  \/ Room(RunSnapshots) /\ \E gateId \in GateIds : RemoveGate(gateId)
  \/ Room(RunSnapshots) /\ ClearCircuit
  \/ Undo
  \/ Redo
  \/ StoreReset
  \/ Len(timers) < MaxPending /\ RunSimulation
  \/ Fire

SpecRuns == InitStore /\ [][NextRuns]_vars

\* The steps in which the oldest waiting callback runs: the Fire steps, told by
\* the queue alone.
TimerRuns == timers # <<>> /\ timers' = Tail(timers)

\* ... where the event loop runs every waiting callback in the end.
SpecRunsFair == InitStore /\ [][NextRuns]_vars /\ WF_timers(TimerRuns)

\* Every action that edits the circuit or moves in the undo history.
NextEdits ==
  \/ Room(MaxSnapshots) /\ \E n \in StoreQubits : InitSimulator(n)
  \/ Room(MaxSnapshots) /\ \E g \in StoreGates : AddGate(g.gate, g.qubits)
  \/ Room(MaxSnapshots) /\ \E gateId \in GateIds : RemoveGate(gateId)
  \/ Room(MaxSnapshots) /\ ClearCircuit
  \/ Room(MaxSnapshots) /\ \E lines \in Codes : LoadCircuitFromCode(lines)
  \/ Undo
  \/ Redo
  \/ StoreReset

SpecEdits == InitStore /\ [][NextEdits]_vars

\* Long histories: a gate is added to the empty circuit and the circuit cleared
\* in turn, from the newest snapshot (from any snapshot while the history is
\* short), with undo and redo anywhere; the history grows to HISTORY_LIMIT
\* snapshots and past it.
Newest == ~canRedo(store) \/ Len(store.history) <= MaxSnapshots

NextHistory ==
  \/ Newest /\ Len(store.circuitGates) = 0 /\ AddGate("H", <<0>>)
  \/ Newest /\ Len(store.circuitGates) > 0 /\ ClearCircuit
  \/ Undo
  \/ Redo
  \/ StoreReset

SpecHistory == InitStore /\ [][NextHistory]_vars

(* ------------------------------- claims -------------------------------- *)

\* The latest mutating call, and a step that makes one by method op.
LastCall == calls[Len(calls)]
Stepped(op) == Len(calls') = Len(calls) + 1 /\ last'.op = op

\* The amplitudes of the flat engine, as getState() returns them.
FlatState == FlatGetState(fstate, numQubits)

InRange(qubits, n) == \A k \in DOMAIN qubits : qubits[k] >= 0 /\ qubits[k] < n
Distinct(qubits) == \A j, k \in DOMAIN qubits : j # k => qubits[j] # qubits[k]

\* C1: apply with a qubit index outside [0, n) fails on both engines and leaves
\* the state vector as it was.  Any exception counts here as the bounds error.
C1_OutOfRangeRejected ==
  [][(Stepped("apply") /\ ~InRange(LastCall'.qubits, numQubits))
       => /\ last'.ferr # "none" /\ fstate' = fstate
          /\ last'.oerr # "none" /\ state' = state]_vars

\* C1, failing input: new QuantumSimulator(1) of the flat engine, apply('X', 1)
\* returns normally and every cell of the buffer is NaN.
C1_FlatCorrupted ==
  /\ numQubits = 1
  /\ Len(calls) = 1 /\ LastCall.gate = "X" /\ LastCall.qubits = <<1>>
  /\ last.ferr = "none"
  /\ \A x \in DOMAIN fstate : IsNaN(fstate[x])

\* C2: apply with in-range qubit indices that are not pairwise distinct is
\* rejected by both engines and the state vector is unchanged.
C2_DuplicatesRejected ==
  [][(Stepped("apply") /\ InRange(LastCall'.qubits, numQubits)
                       /\ ~Distinct(LastCall'.qubits))
       => /\ last'.ferr # "none" /\ fstate' = fstate
          /\ last'.oerr # "none" /\ state' = state]_vars

\* C2, failing input: on 2 qubits, apply('X', 0) then apply('Toffoli', 0, 0, 1)
\* returns normally on both engines and moves the amplitude from |10> to |11>.
C2_ToffoliApplied ==
  /\ numQubits = 2
  /\ Len(calls) = 2 /\ calls[1].gate = "X" /\ calls[1].qubits = <<0>>
  /\ LastCall.gate = "Toffoli" /\ LastCall.qubits = <<0, 0, 1>>
  /\ last.ferr = "none" /\ last.oerr = "none"
  /\ state[3] = ONE /\ state[2] = ZERO
  /\ FlatState[3] = ONE /\ FlatState[2] = ZERO

\* |x - 1| <= 1e-6, which no NaN and no infinity satisfies
WithinTolerance(x) == x.k = "num" /\ ~FarFromOne(x)

\* C3: after construction and after every public call, completed or failed, the
\* object engine's state vector has squared norm 1 within 1e-6.
C3_Normalized == WithinTolerance(SumNorm(state, 0))

\* C3, failing input: initialize(2^n) returns normally and leaves the all-zero
\* vector.
C3_AllZero ==
  /\ Len(calls) = 1 /\ LastCall.op = "initialize"
  /\ ~LastCall.arg.isString /\ LastCall.arg.index = Size(numQubits)
  /\ last.oerr = "none"
  /\ state = Zeros(numQubits)

\* The basis state |k> on n qubits, and the value of qubit q in index k under the
\* convention that qubit q is bit n-1-q.
Basis(n, k) == [i \in 0..(Size(n) - 1) |-> IF i = k THEN ONE ELSE ZERO]
BitAt(k, n, q) == (k \div Pow2(n - 1 - q)) % 2
Flip(k, n, q) == IF BitAt(k, n, q) = 1 THEN k - Pow2(n - 1 - q) ELSE k + Pow2(n - 1 - q)

\* C4: on a basis state, apply('CNOT', c, t) with distinct in-range c and t, in
\* either index order, flips bit t exactly when bit c is 1, on both engines.
C4_FirstIsControl ==
  [][(Stepped("apply") /\ LastCall'.gate = "CNOT"
        /\ InRange(LastCall'.qubits, numQubits) /\ Distinct(LastCall'.qubits))
       => \A k \in 0..(Size(numQubits) - 1) :
            LET c == LastCall'.qubits[1]
                t == LastCall'.qubits[2]
                expected == Basis(numQubits, IF BitAt(k, numQubits, c) = 1
                                             THEN Flip(k, numQubits, t) ELSE k)
            IN /\ FlatState = Basis(numQubits, k) => FlatState' = expected
               /\ state = Basis(numQubits, k) => state' = expected]_vars

\* C4, failing input: on 2 qubits, apply('X', 1) then apply('CNOT', 1, 0): the
\* control is 1, the flat engine ends in |11>, the object engine stays in |01>.
C4_ObjIgnoresControl ==
  /\ numQubits = 2
  /\ Len(calls) = 2 /\ calls[1].gate = "X" /\ calls[1].qubits = <<1>>
  /\ LastCall.gate = "CNOT" /\ LastCall.qubits = <<1, 0>>
  /\ last.ferr = "none" /\ last.oerr = "none"
  /\ FlatState = Basis(2, 3)
  /\ state = Basis(2, 1)

\* C5: on a basis state, apply('Toffoli', c1, c2, t) with three distinct in-range
\* qubits in any index order flips bit t if and only if bits c1 and c2 are both
\* 1 and changes no other bit, on both engines.
C5_ToffoliFlipsIffBothControls ==
  [][(Stepped("apply") /\ LastCall'.gate = "Toffoli"
        /\ InRange(LastCall'.qubits, numQubits) /\ Distinct(LastCall'.qubits))
       => \A k \in 0..(Size(numQubits) - 1) :
            LET ca == LastCall'.qubits[1]
                cb == LastCall'.qubits[2]
                t == LastCall'.qubits[3]
                expected ==
                  Basis(numQubits, IF BitAt(k, numQubits, ca) = 1 /\ BitAt(k, numQubits, cb) = 1
                                   THEN Flip(k, numQubits, t) ELSE k)
            IN /\ last'.ferr = "none" /\ last'.oerr = "none"
               /\ FlatState = Basis(numQubits, k) => FlatState' = expected
               /\ state = Basis(numQubits, k) => state' = expected]_vars

\* C5, witness: on 3 qubits, after X(0) and X(2), apply('Toffoli', 2, 0, 1) has
\* flipped qubit 1 on both engines: |101> became |111>.
C5_Witness ==
  /\ numQubits = 3
  /\ Len(calls) = 3 /\ calls[1].qubits = <<0>> /\ calls[2].qubits = <<2>>
  /\ LastCall.gate = "Toffoli" /\ LastCall.qubits = <<2, 0, 1>>
  /\ FlatState = Basis(3, 7)
  /\ state = Basis(3, 7)

\* The n-character bitstring with '1' at position q (counted from 0) only.
OneHot(n, q) == [k \in 1..n |-> IF k = q + 1 THEN "1" ELSE "0"]

\* C6: qubit q is bit n-1-q in every operation.  On a run that starts with
\* apply('X', q) on the fresh state: right after it the only populated index is
\* 2^(n-1-q) on both engines; a sample taken then has no key but the bitstring
\* with '1' at position q, and counts every shot; getBlochCoordinates taken then
\* gives z = -1 for q and z = +1 for every other qubit; a measure made next
\* returns 1 for q and 0 for every other qubit.
C6_QubitIsBit ==
  \A q \in 0..(numQubits - 1) :
    (Len(calls) >= 1 /\ calls[1] = Call("apply", "X", <<q>>, <<>>))
      => /\ Len(calls) = 1
              => /\ state = Basis(numQubits, Pow2(numQubits - 1 - q))
                 /\ FlatState = Basis(numQubits, Pow2(numQubits - 1 - q))
         /\ (Len(calls) = 1 /\ last.op = "sample")
              => /\ DOMAIN last.fhist \subseteq {OneHot(numQubits, q)}
                 /\ DOMAIN last.ohist \subseteq {OneHot(numQubits, q)}
                 /\ Len(last.rnds) > 0
                      => /\ last.fhist = (OneHot(numQubits, q) :> Len(last.rnds))
                         /\ last.ohist = (OneHot(numQubits, q) :> Len(last.rnds))
         /\ (Len(calls) = 1 /\ last.op = "bloch" /\ last.qubit \in 0..(numQubits - 1))
              => /\ last.obloch.err = "none"
                 /\ last.fbloch.z = (IF last.qubit = q THEN Num(-1) ELSE One)
                 /\ last.obloch.z = (IF last.qubit = q THEN Num(-1) ELSE One)
         /\ (Len(calls) = 2 /\ last.op = "measure")
              => /\ last.oerr = "none"
                 /\ last.outcome = (IF last.qubit = q THEN 1 ELSE 0)

\* C6, witness: on 3 qubits, after apply('X', 1) one shot of sample returned
\* {"010": 1} on both engines.
C6_Witness ==
  /\ numQubits = 3
  /\ calls = <<Call("apply", "X", <<1>>, <<>>)>>
  /\ last.op = "sample" /\ Len(last.rnds) = 1
  /\ last.fhist = (<<"0", "1", "0">> :> 1)
  /\ last.ohist = (<<"0", "1", "0">> :> 1)

RECURSIVE SumProb(_, _)
\* The sum of |st[i]|^2 over the given indices.
SumProb(st, indices) ==
  IF indices = {} THEN Zero
  ELSE LET i == CHOOSE j \in indices : TRUE
       IN Plus(Plus(Times(st[i].real, st[i].real), Times(st[i].imag, st[i].imag)),
               SumProb(st, indices \ {i}))

\* P(b) for qubit q: the squared amplitudes of the indices whose bit for q is b.
OutcomeProbability(st, n, q, b) == SumProb(st, {i \in DOMAIN st : BitAt(i, n, q) = b})

\* The powers of sqrt 2 a rescaling factor can take in the model.
ScaleFactors ==
  {Num(Pow2(j)) : j \in 0..MaxQubits} \cup {Reduce(0, Pow2(j), 0) : j \in 0..MaxQubits}

SampleStep == ~last.query /\ last'.query /\ last'.op = "sample"

\* C8: sample(shots) leaves the state vector of both engines, and the history and
\* operations log of the object engine, as they were before the call, for every
\* shots value and every draw; the histogram is the one the probability vector of
\* the state before the call gives for all the shots.
C8_SampleFrame ==
  [][SampleStep
       => /\ fstate' = fstate
          /\ state' = state /\ history' = history /\ operations' = operations
          /\ last'.fhist = Sample(ObjGetProbabilities(FlatState), numQubits, last'.rnds)
          /\ last'.ohist = Sample(ObjGetProbabilities(state), numQubits, last'.rnds)]_vars

\* C8, witness: on 1 qubit, after apply('H', 0), a sample of 2 shots that drew both
\* outcomes has returned, with the superposition still in place and the history
\* holding the initial state and the state after H.
C8_Witness ==
  /\ numQubits = 1
  /\ calls = <<Call("apply", "H", <<0>>, <<>>)>>
  /\ last.op = "sample" /\ Len(last.rnds) = 2
  /\ last.ohist = (<<"0">> :> 1) @@ (<<"1">> :> 1)
  /\ last.fhist = last.ohist
  /\ state = [i \in 0..1 |-> complex(Reduce(0, 1, 1), Zero)]
  /\ FlatState = state
  /\ Len(history) = 2 /\ Len(operations) = 1

\* The basis index a bitstring names, most significant character first.
IndexNamed(key) ==
  LET RECURSIVE Value(_)
      Value(j) == IF j = 0 THEN 0 ELSE 2 * Value(j - 1) + (IF key[j] = "1" THEN 1 ELSE 0)
  IN Value(Len(key))

\* hist is a histogram over the state st of n qubits: every key has n characters
\* over {"0", "1"} and names an index of non-zero probability, every count is >= 1.
HistogramOf(hist, st, n) ==
  \A key \in DOMAIN hist :
    /\ key \in [1..n -> {"0", "1"}]
    /\ LET a == st[IndexNamed(key)]
       IN Plus(Times(a.real, a.real), Times(a.imag, a.imag)) # Zero
    /\ hist[key] >= 1

\* C9: every key of a histogram sample(shots) returns has exactly numQubits
\* characters over {'0','1'} and names a basis index whose probability in the
\* current state is not zero, on both engines; on the Bell state the keys are among
\* "00" and "11".
C9_HistogramKeys ==
  last.op = "sample"
    => /\ HistogramOf(last.fhist, FlatState, numQubits)
       /\ HistogramOf(last.ohist, state, numQubits)
       /\ (numQubits = 2 /\ calls = <<Call("apply", "H", <<0>>, <<>>),
                                       Call("apply", "CNOT", <<0, 1>>, <<>>)>>)
            => /\ DOMAIN last.fhist \subseteq {<<"0", "0">>, <<"1", "1">>}
               /\ DOMAIN last.ohist \subseteq {<<"0", "0">>, <<"1", "1">>}

\* C9, witness: two shots on the Bell state returned "00" once and "11" once, on
\* both engines.
C9_Witness ==
  /\ numQubits = 2
  /\ calls = <<Call("apply", "H", <<0>>, <<>>), Call("apply", "CNOT", <<0, 1>>, <<>>)>>
  /\ last.op = "sample"
  /\ last.fhist = (<<"0", "0">> :> 1) @@ (<<"1", "1">> :> 1)
  /\ last.ohist = last.fhist

\* The Bell state (|00> + |11>) / sqrt 2, with 1 / sqrt 2 written as sqrt 2 / 2.
BellState ==
  [i \in 0..3 |-> IF i \in {0, 3} THEN complex(Reduce(0, 1, 1), Zero) ELSE complex(Zero, Zero)]

\* The probability vector [0.5, 0, 0, 0.5].
BellProbabilities == [i \in 0..3 |-> IF i \in {0, 3} THEN Reduce(1, 0, 1) ELSE Zero]

\* C10: on a fresh 2-qubit engine, after apply('H', 0) and apply('CNOT', 0, 1)
\* amplitudes 0 and 3 are 1/sqrt 2 and amplitudes 1 and 2 are 0, and
\* getProbabilities() is [0.5, 0, 0, 0.5], on both engines.
C10_BellState ==
  (numQubits = 2 /\ calls = <<Call("apply", "H", <<0>>, <<>>),
                              Call("apply", "CNOT", <<0, 1>>, <<>>)>>)
    => /\ last.ferr = "none" /\ last.oerr = "none"
       /\ state = BellState
       /\ FlatState = BellState
       /\ ObjGetProbabilities(state) = BellProbabilities
       /\ FlatGetProbabilities(fstate, numQubits) = BellProbabilities

\* C10, witness: the two calls have been made on a 2-qubit engine, the second was
\* the CNOT, and the squared amplitudes of indices 0 and 3 add up to 1.
C10_Witness ==
  /\ numQubits = 2
  /\ Len(calls) = 2 /\ calls[1] = Call("apply", "H", <<0>>, <<>>)
  /\ LastCall = Call("apply", "CNOT", <<0, 1>>, <<>>)
  /\ last.op = "apply"
  /\ Plus(magnitudeSquared(state[0]), magnitudeSquared(state[3])) = One
  /\ Plus(magnitudeSquared(FlatState[0]), magnitudeSquared(FlatState[3])) = One

RECURSIVE FlatReplay(_, _, _)
\* The flat engine's buffer after the first k of the apply calls cs on a fresh
\* engine of n qubits.
FlatReplay(n, cs, k) ==
  IF k = 0 THEN FlatFresh(n)
  ELSE FlatApply(FlatReplay(n, cs, k - 1), n, cs[k].gate, cs[k].arg, cs[k].qubits).buf

RECURSIVE ObjReplay(_, _, _)
\* The object engine after the first k of the apply calls cs on a fresh engine.
ObjReplay(n, cs, k) ==
  IF k = 0 THEN [state |-> ObjFresh(n), history |-> <<ObjFresh(n)>>, operations |-> <<>>]
  ELSE ObjApply(ObjReplay(n, cs, k - 1), n, cs[k].gate, cs[k].arg, cs[k].qubits).eng

\* The latest two calls were apply('H', q), apply('H', q) for the same q.
TwiceH ==
  /\ Len(calls) >= 2
  /\ LastCall.op = "apply" /\ LastCall.gate = "H"
  /\ calls[Len(calls) - 1] = LastCall

\* C11: on every engine size and for every valid qubit q, after apply('H', q) has
\* been applied twice in succession every amplitude has the value it had before the
\* first of the two, on both engines.
C11_HTwiceRestores ==
  TwiceH
    => /\ last.ferr = "none" /\ last.oerr = "none"
       /\ fstate = FlatReplay(numQubits, calls, Len(calls) - 2)
       /\ state = ObjReplay(numQubits, calls, Len(calls) - 2).state

\* C11, witness: on 3 qubits, H(0) made a superposition, then H(2) was applied
\* twice, and the state is (|000> + |100>) / sqrt 2 again on both engines.
C11_Witness ==
  /\ numQubits = 3
  /\ calls = <<Call("apply", "H", <<0>>, <<>>), Call("apply", "H", <<2>>, <<>>),
               Call("apply", "H", <<2>>, <<>>)>>
  /\ state = [i \in 0..7 |-> IF i \in {0, 4} THEN complex(Reduce(0, 1, 1), Zero) ELSE ZERO]
  /\ FlatState = state

\* C12: every constant entry of GATE_LIBRARY is a square matrix of 2^qubits rows
\* and columns, and each entry (i, j) of G-dagger times G is 1 when i = j and 0
\* otherwise, exactly.
C12_ConstantGatesUnitary ==
  last.op = "isUnitary"
    => LET matrix == GateMatrix(last.gate, <<>>)
       IN /\ last.gate \in ConstantGates
          /\ last.dim = Pow2(GATE_LIBRARY[last.gate].qubits)
          /\ \A i \in DOMAIN matrix : DOMAIN matrix[i] = 0..(last.dim - 1)
          /\ last.entry = IF last.row = last.col
                          THEN complex(One, Zero) ELSE complex(Zero, Zero)

\* C12, witness: the product for the controlled Hadamard CH was formed at the two
\* columns H fills: entry (3, 3) is 1 and entry (2, 3) is 0.
C12_Witness ==
  /\ last.op = "isUnitary" /\ last.gate = "CH" /\ last.dim = 4
  /\ \/ last.row = 3 /\ last.col = 3 /\ last.entry = complex(One, Zero)
     \/ last.row = 2 /\ last.col = 3 /\ last.entry = complex(Zero, Zero)

\* The engines are as they were before the step.
EnginesUnchanged ==
  fstate' = fstate /\ state' = state /\ history' = history /\ operations' = operations

\* C13: an apply whose parameter array has a length other than the gate's number
\* of parameters, or holds a non-finite value, raises an error on both engines and
\* leaves both engines as they were.
C13_BadParamsRejected ==
  [][(Stepped("apply")
        /\ \/ Len(LastCall'.arg) # GATE_LIBRARY[LastCall'.gate].params
           \/ \E i \in DOMAIN LastCall'.arg : LastCall'.arg[i].nan)
       => /\ last'.ferr # "none" /\ last'.oerr # "none"
          /\ EnginesUnchanged]_vars

\* C13, witness: on 1 qubit, apply('Rx', [pi, pi], 0) returned normally on both
\* engines and moved the state from |0> to -i|1>.
C13_ExtraParamsApplied ==
  /\ numQubits = 1
  /\ calls = <<Call("apply", "Rx", <<0>>, <<AnglePi, AnglePi>>)>>
  /\ last.ferr = "none" /\ last.oerr = "none"
  /\ state = [i \in 0..1 |-> IF i = 1 THEN complex(Zero, Num(-1)) ELSE ZERO]
  /\ FlatState = state

\* C14: an apply whose gate matrix, evaluated for the parameters supplied, has a
\* NaN entry raises an error on both engines, leaves state vector, history and
\* operations as they were, and writes no NaN into either state.
C14_NaNMatrixRejected ==
  [][(Stepped("apply")
        /\ HasNaN(GateMatrix(LastCall'.gate, ParamsOrDefault(LastCall'.arg))))
       => /\ last'.ferr # "none" /\ last'.oerr # "none"
          /\ EnginesUnchanged
          /\ \A k \in DOMAIN fstate' : ~IsNaN(fstate'[k])]_vars

\* C14, witness: on 1 qubit, apply('Rx', [NaN], 0) returned normally on the flat
\* engine with NaN in every cell of its buffer, while the object engine threw and
\* kept |0>.
C14_FlatHoldsNaN ==
  /\ numQubits = 1
  /\ calls = <<Call("apply", "Rx", <<0>>, <<NaNAngle>>)>>
  /\ last.ferr = "none" /\ last.oerr = "Error"
  /\ \A k \in DOMAIN fstate : IsNaN(fstate[k])
  /\ state = ObjFresh(1) /\ Len(history) = 1 /\ operations = <<>>

\* C15: an engine exists only for a qubit count validateQubitCount accepts, an
\* integer n with 1 <= n <= 20.
C15_CountValidated == validateQubitCount(numQubits) = "none"

\* C15, witness: both engines were constructed for 0 qubits, each holding the
\* single amplitude 1, and sample(1) on them returned a histogram.
C15_ZeroQubitEngine ==
  /\ numQubits = 0
  /\ FlatState = [i \in 0..0 |-> complex(One, Zero)]
  /\ state = FlatState
  /\ Len(history) = 1
  /\ last.op = "sample" /\ Len(last.rnds) = 1
  /\ DOMAIN last.fhist # {} /\ DOMAIN last.ohist # {}

\* Every component of the vector v is a finite number.
AllFinite(v) == \A i \in DOMAIN v : v[i].real.k = "num" /\ v[i].imag.k = "num"

\* C16: setState(v) returns normally only when v has 2^n entries, every component
\* is finite and the squared norm is within the tolerance of 1, and then the state
\* is v; when it throws, state and history are as they were.
C16_SetStateValidated ==
  [][Stepped("setState")
       => LET v == LastCall'.arg
          IN /\ last'.oerr = "none"
                  => /\ Cardinality(DOMAIN v) = Pow2(numQubits)
                     /\ AllFinite(v)
                     /\ WithinTolerance(SumNorm(v, 0))
                     /\ state' = v
             /\ last'.oerr # "none" => state' = state /\ history' = history]_vars

\* C16, witness: setState of a vector whose first component is NaN returned
\* normally, and the state holds the NaN.
C16_NaNAccepted ==
  /\ last.op = "setState" /\ last.oerr = "none"
  /\ LastCall.op = "setState" /\ ~AllFinite(LastCall.arg)
  /\ state = LastCall.arg
  /\ IsNaN(state[0].real)

\* What a call may end with if every failure is a QuantumValidationError: it
\* returns, the engine has no such method, or it throws that error.
TypedOutcomes == {"none", "absent", "QuantumValidationError"}

\* C17: whatever a public operation of either engine throws is a
\* QuantumValidationError, never a plain Error or a TypeError.
C17_FailuresTyped ==
  /\ last.ferr \in TypedOutcomes
  /\ last.oerr \in TypedOutcomes
  /\ last.fbloch.err \in TypedOutcomes
  /\ last.obloch.err \in TypedOutcomes

\* C17, witness: apply('Toffoli', ...) with a qubit out of range ended in a
\* TypeError on the object engine, and measure with a qubit out of range in a plain
\* Error.
C17_UntypedFailure ==
  \/ /\ last.op = "apply" /\ LastCall.gate = "Toffoli"
     /\ ~InRange(LastCall.qubits, numQubits)
     /\ last.oerr = "TypeError"
  \/ /\ last.op = "measure"
     /\ ~InRange(LastCall.qubits, numQubits)
     /\ last.oerr = "Error"

\* C18: sample(shots) returns a histogram only for a shot count validateShots
\* accepts, an integer in [1, MAX_SHOTS].
C18_ShotsValidated ==
  (last.op = "sample" /\ last.ferr = "none" /\ last.oerr = "none")
    => validateShots(Len(last.rnds)) = "none"

\* C18, witness: after apply('H', 0), sample(0) returned normally on both engines,
\* with an empty histogram.
C18_ZeroShotsAnswered ==
  /\ calls = <<Call("apply", "H", <<0>>, <<>>)>>
  /\ last.op = "sample" /\ Len(last.rnds) = 0
  /\ last.ferr = "none" /\ last.oerr = "none"
  /\ DOMAIN last.fhist = {} /\ DOMAIN last.ohist = {}

RECURSIVE SumComplex(_, _)
\* The sum of term[i] over the given indices.
SumComplex(term, indices) ==
  IF indices = {} THEN complex(Zero, Zero)
  ELSE LET i == CHOOSE j \in indices : TRUE
       IN complex(Plus(term[i].real, SumComplex(term, indices \ {i}).real),
                  Plus(term[i].imag, SumComplex(term, indices \ {i}).imag))

\* (x, y, z) for qubit q of the state st as the claim defines them, with
\* rho01 = sum of st[i] * conj(st[i | mask(q)]) over the indices i whose bit q is 0.
BlochOf(st, n, q) ==
  LET zeros == {i \in DOMAIN st : BitAt(i, n, q) = 0}
      rho01 == SumComplex([i \in zeros |->
                             LET a == st[i]
                                 b == st[Flip(i, n, q)]
                             IN complex(Plus(Times(a.real, b.real), Times(a.imag, b.imag)),
                                        Minus(Times(a.imag, b.real), Times(a.real, b.imag)))],
                          zeros)
  IN [x |-> Times(Num(2), rho01.real),
      y |-> Times(Num(2), rho01.imag),
      z |-> Minus(OutcomeProbability(st, n, q, 0), OutcomeProbability(st, n, q, 1))]

\* The coordinates a getBlochCoordinates result carries.
Coordinates(r) == [x |-> r.x, y |-> r.y, z |-> r.z]

\* C19: for every engine size, valid qubit q and reachable state,
\* getBlochCoordinates(q) of each engine returns x = 2 Re(rho01), y = 2 Im(rho01),
\* z = rho00 - rho11 of that engine's state, and the two engines return the same
\* coordinates.
C19_BlochFormula ==
  last.op = "bloch"
    => /\ last.fbloch.err = "none" /\ last.obloch.err = "none"
       /\ Coordinates(last.fbloch) = BlochOf(FlatState, numQubits, last.qubit)
       /\ Coordinates(last.obloch) = BlochOf(state, numQubits, last.qubit)
       /\ Coordinates(last.fbloch) = Coordinates(last.obloch)

\* C19, witness: on 1 qubit, after apply('H', 0) and apply('S', 0),
\* getBlochCoordinates(0) returned (0, -1, 0) on the flat engine and (0, 1, 0) on
\* the object engine.
C19_OppositeY ==
  /\ numQubits = 1
  /\ calls = <<Call("apply", "H", <<0>>, <<>>), Call("apply", "S", <<0>>, <<>>)>>
  /\ last.op = "bloch" /\ last.qubit = 0
  /\ Coordinates(last.fbloch) = [x |-> Zero, y |-> Num(-1), z |-> Zero]
  /\ Coordinates(last.obloch) = [x |-> Zero, y |-> One, z |-> Zero]

\* The operations-log entry of measure(q).
MeasureEntry(q) == [gate |-> "MEASURE", qubits |-> <<q>>]

\* C20: a measure(q) that returns appends exactly the entry {MEASURE, [q]} to the
\* end of the operations log and exactly one snapshot, the new state, to the
\* history; measureAll() appends the entries for qubits 0, 1, ..., n-1 in that
\* order and n snapshots; an apply appends no entry whose gate is MEASURE and
\* keeps the earlier entries.
C20_MeasureLogged ==
  [][/\ (Stepped("measure") /\ last'.oerr = "none")
          => /\ operations' = Append(operations, MeasureEntry(last'.qubit))
             /\ history' = Append(history, state')
     /\ Stepped("measureAll")
          => /\ operations' = operations \o [q \in 1..numQubits |-> MeasureEntry(q - 1)]
             /\ Len(history') = Len(history) + numQubits
             /\ history'[Len(history')] = state'
             /\ \A k \in 1..Len(history) : history'[k] = history[k]
     /\ Stepped("apply")
          => /\ Len(operations') >= Len(operations)
             /\ \A k \in 1..Len(operations') :
                  IF k <= Len(operations) THEN operations'[k] = operations[k]
                  ELSE operations'[k].gate # "MEASURE"]_vars

\* C20, witness: on 2 qubits, after apply('H', 0), measureAll() left the log
\* H, MEASURE [0], MEASURE [1] and four snapshots in the history.
C20_Witness ==
  /\ numQubits = 2
  /\ Len(calls) = 2 /\ calls[1] = Call("apply", "H", <<0>>, <<>>)
  /\ last.op = "measureAll" /\ Len(last.results) = 2
  /\ Len(operations) = 3 /\ operations[1].gate = "H"
  /\ operations[2] = MeasureEntry(0) /\ operations[3] = MeasureEntry(1)
  /\ Len(history) = 4

\* C21: after every step of a run of apply calls that pass validation, getState()
\* and getProbabilities() of the flat engine equal those of the object engine.
C21_EnginesEquivalent ==
  /\ FlatState = state
  /\ FlatGetProbabilities(fstate, numQubits) = ObjGetProbabilities(state)

\* C21, failing input: on 2 qubits, apply('X', 1) then apply('CNOT', 1, 0) returns
\* on both engines; the flat engine reports probability 1 at index 3, the object
\* engine at index 1.
C21_EnginesDiverge ==
  /\ numQubits = 2
  /\ Len(calls) = 2
  /\ calls[1] = Call("apply", "X", <<1>>, <<>>)
  /\ calls[2] = Call("apply", "CNOT", <<1, 0>>, <<>>)
  /\ last.ferr = "none" /\ last.oerr = "none"
  /\ FlatGetProbabilities(fstate, numQubits)[3] = One
  /\ ObjGetProbabilities(state)[1] = One
  /\ FlatState # state

\* C22: on a new engine of n qubits, 1 <= n <= 20, getState() returns exactly 2^n
\* amplitudes, 1 at index 0 and 0 at every other index, and getProbabilities()
\* returns exactly 2^n entries, on both engines.
C22_FreshEngineReported ==
  /\ last.op \in {"getState", "getProbabilities"}
       => /\ last.flen = Pow2(numQubits)
          /\ last.olen = Pow2(numQubits)
  /\ last.op = "getState"
       => /\ last.fdefined /\ last.fentry = (IF last.index = 0 THEN ONE ELSE ZERO)
          /\ last.odefined /\ last.oentry = (IF last.index = 0 THEN ONE ELSE ZERO)

\* C22, failing input: new QuantumSimulator(15).getState() of the flat engine has
\* 16384 elements, so index 2^15 - 1 is past its end; the object engine returns
\* 32768.
C22_Truncated ==
  /\ numQubits = 15
  /\ last.op = "getState"
  /\ last.index = 32767
  /\ last.flen = 16384 /\ ~last.fdefined
  /\ last.olen = 32768 /\ last.odefined

\* A dim x dim matrix whose entries are pairwise different and not real: it is
\* neither symmetric nor unitary.
Counting(dim) ==
  Array([i \in 0..(dim - 1) |->
           Array([j \in 0..(dim - 1) |-> complex(Num(dim * i + j + 1), Num(j - i))])])

\* Matrices handed to the flat engine's private routines.
Matrices2x2 == {X, Y, H, S, SX, Counting(2)}
Matrices4x4 == {CNOT, CH, iSWAP, Counting(4)}

\* C23: on every state of the flat engine, applySingleQubitGate(G, q) gives the
\* state applyMultiQubitGate(G, [q]) gives, for every 2x2 matrix G and qubit q; and
\* applyTwoQubitGate(G, q1, q2) gives the state applyMultiQubitGate(G, [q1, q2])
\* gives, for every 4x4 matrix G and distinct q1, q2 in either order.
C23_SpecialisedAreInstances ==
  /\ \A G \in Matrices2x2 : \A q \in 0..(numQubits - 1) :
       FlatApplySingleQubitGate(fstate, numQubits, G, q)
         = FlatApplyMultiQubitGate(fstate, numQubits, G, <<q>>)
  /\ \A G \in Matrices4x4 : \A qs \in ValidTuples(numQubits, 2) :
       FlatApplyTwoQubitGate(fstate, numQubits, G, qs[1], qs[2])
         = FlatApplyMultiQubitGate(fstate, numQubits, G, qs)

\* C23, witness: a 3-qubit superposition on which the order of the two qubits
\* matters and on which both pairs of routines change the state.
C23_Witness ==
  /\ numQubits = 3
  /\ LET two == FlatApplyTwoQubitGate(fstate, 3, Counting(4), 2, 0)
         one == FlatApplySingleQubitGate(fstate, 3, Counting(2), 1)
     IN /\ two # fstate
        /\ two # FlatApplyTwoQubitGate(fstate, 3, Counting(4), 0, 2)
        /\ two = FlatApplyMultiQubitGate(fstate, 3, Counting(4), <<2, 0>>)
        /\ one # fstate
        /\ one = FlatApplyMultiQubitGate(fstate, 3, Counting(2), <<1>>)
  /\ \E i \in DOMAIN fstate : fstate[i] \notin {Zero, One}

\* C24: a callback of runSimulation that runs after a later runSimulation call
\* (also one made on an empty circuit) or after reset changes nothing in the
\* store.
C24_SupersededRunChangesNothing == ran.superseded => ~ran.changed

\* C24, failing input: reset, addGate('H', [0]), runSimulation, undo,
\* runSimulation on the now empty circuit, then the first run's callback: it
\* commits the result of the circuit [H] while circuitGates is empty.
C24_StaleResultCommitted ==
  /\ ran.fired /\ ran.superseded /\ ran.changed
  /\ timers = <<>>
  /\ store.circuitGates = <<>>
  /\ store.history = << <<>>, <<CircuitGate(1, "H", <<0>>, <<>>, 0)>> >>
  /\ store.historyIndex = 0
  /\ ~store.simulationResult.null
  /\ store.simulationResult.probabilities = FlatGetProbabilities(FlatApply(FlatFresh(2), 2, "H", <<>>, <<0>>).buf, 2)

\* The values runId takes in the model.
RunIds == 1..(MaxPending + 1)

\* C25: for any interleaving of runSimulation, addGate, removeGate, clearCircuit,
\* undo, redo and reset with the timer callbacks, isRunning is false whenever no
\* callback is waiting, and a run that set isRunning is always followed by a state
\* where isRunning is false or a later run has taken over: isRunning is not left
\* true forever, also when the run throws or is superseded.
C25_RunningEnds ==
  /\ [](timers = <<>> => ~store.isRunning)
  /\ \A r \in RunIds :
       (store.isRunning /\ store.lastRunId = r) ~> (~store.isRunning \/ store.lastRunId # r)

\* C25, witness: the callback of a run of the circuit ['Nope'] has thrown, no
\* callback is waiting, and isRunning is false again.
C25_Witness ==
  /\ ran.fired /\ ~ran.superseded /\ ran.changed
  /\ timers = <<>>
  /\ store.lastRunId \in RunIds
  /\ Len(store.circuitGates) = 1 /\ store.circuitGates[1].gate = "Nope"
  /\ store.simulationResult.null
  /\ ~store.isRunning


C27_HistoryBounded ==
  /\ [](/\ Len(store.history) \in 1..HISTORY_LIMIT
        /\ store.historyIndex \in 0..(Len(store.history) - 1))
  /\ [][(/\ Len(store.history) = HISTORY_LIMIT
         /\ store.historyIndex = HISTORY_LIMIT - 1
         /\ store' # store
         /\ store' # undo(store)
         /\ store' # reset(store))
          => /\ store'.history = Append(Tail(store.history), store'.circuitGates)
             /\ store'.historyIndex = HISTORY_LIMIT - 1]_vars

\* More than 50 snapshots were added since the last reset: the snapshot of the
\* empty circuit that reset leaves first is no longer the oldest one.
C27_Witness ==
  /\ Len(store.history) = HISTORY_LIMIT
  /\ store.historyIndex = HISTORY_LIMIT - 1
  /\ store.history[1] # <<>>
  /\ store.history[HISTORY_LIMIT] = store.circuitGates


\* The log entries call number k of the run accounts for if it took effect: one
\* per apply and per measure, one per qubit for measureAll (which calls measure
\* for each qubit); the latest call took no effect if it threw.
Effective(k) ==
  IF k = Len(calls) /\ last.oerr # "none" THEN 0
  ELSE IF calls[k].op \in {"apply", "measure"} THEN 1
  ELSE IF calls[k].op = "measureAll" THEN numQubits
  ELSE 0

RECURSIVE EffectiveSince(_)
\* The same for the calls from the latest reset or initialize up to call k.
EffectiveSince(k) ==
  IF k = 0 THEN 0
  ELSE IF calls[k].op \in {"reset", "initialize"} THEN 0
  ELSE Effective(k) + EffectiveSince(k - 1)

\* C28: the operations log of the object engine holds as many entries as apply
\* and measure calls have completed since the latest reset or initialize; an
\* apply that threw has added none.
C28_LogCountsEffective == Len(operations) = EffectiveSince(Len(calls))

\* C28, the failing case: on 1 qubit the first call, apply('X', -1), threw
\* "Invalid qubit index", and the log holds its entry; the history holds only
\* the initial state.
C28_ThrownApplyLogged ==
  /\ numQubits = 1
  /\ calls = <<Call("apply", "X", <<-1>>, <<>>)>>
  /\ last.op = "apply" /\ last.oerr # "none"
  /\ operations = <<[gate |-> "X", qubits |-> <<-1>>, params |-> <<>>]>>
  /\ state = ObjFresh(1)
  /\ history = <<ObjFresh(1)>>


RECURSIVE BitsIndex(_, _, _)
\* The sum of bits[q] * 2^(n-1-q) over the qubits from q to n-1 (bits[q] is
\* the outcome of qubit q, held at position q + 1).
BitsIndex(bits, n, q) ==
  IF q >= n THEN 0 ELSE bits[q + 1] * Size(n - 1 - q) + BitsIndex(bits, n, q + 1)

RECURSIVE CountSum(_, _)
\* The sum of results.get(key) over the given keys of a histogram.
CountSum(results, keys) ==
  IF keys = {} THEN 0
  ELSE LET key == CHOOSE k \in keys : TRUE
       IN results[key] + CountSum(results, keys \ {key})

====
